---- MODULE Spec2Model ----
(***************************************************************************)
(* A model of the NERIST One backend (src/nerist_backend.js): the          *)
(* IndexedDB object stores with their unique indexes, the localStorage     *)
(* session slot, the in-memory currentUser, and the workflows layered on   *)
(* them.  Every async method is split at its awaits: one action per        *)
(* resumption, holding the store operation that completed and the          *)
(* synchronous code that runs until the next store operation is issued.    *)
(* Two request contexts (Procs) run methods of the one backend instance,   *)
(* so their steps interleave at the awaits.                                *)
(***************************************************************************)
EXTENDS Integers, Sequences, FiniteSets, TLC

VARIABLES
    users,          \* object store 'users': id -> record
    session,        \* localStorage 'nerist_session' (parsed), or NoSession
    token,          \* localStorage 'nerist_token', or NoToken
    currentUser,    \* this.currentUser: a sanitized copy of a user, or NoUser
    activityLog,    \* object store 'activityLog', in key order
    logSeq,         \* key generator of 'activityLog', where entries carry their keys
    messMenu,       \* object store 'messMenu': `${date}_${mealType}` -> menu
    mealBookings,   \* object store 'mealBookings': `${date}_${mealType}_${studentId}` -> record
    careerOpportunities,    \* object store 'careerOpportunities': id -> record
    studentApplications,    \* object store 'studentApplications': id -> record
    campusAlerts,   \* object store 'campusAlerts': id -> record
    attendance,     \* object store 'attendance': id -> record
    attendanceSeq,  \* key generator of 'attendance': the largest key so far
    results,        \* object store 'results': `${studentId}_${semester}` -> record
    snapshot,       \* the value exportDataAsJSON returned last, or NoVal
    backups,        \* localStorage 'nerist_backup_...': key -> snapshot
    idSeq,          \* number of user ids generated so far
    now,            \* the clock, in hours
    pc,             \* per context: the await a call is suspended at, or "idle"
    loc,            \* per context: the locals of the call in progress
    hist            \* the last calls started, with their outcomes

vars == <<users, session, token, currentUser, activityLog, logSeq, messMenu, mealBookings,
          careerOpportunities, studentApplications, campusAlerts, attendance,
          attendanceSeq, results, snapshot, backups, idSeq, now, pc, loc, hist>>

messVars == <<messMenu, mealBookings>>
careerVars == <<careerOpportunities, studentApplications>>
userVars == <<users, session, token, currentUser, idSeq>>
attendanceVars == <<attendance, attendanceSeq>>
backupVars == <<snapshot, backups>>

\* What the user workflows, the mess workflows and the career workflows leave alone.
nonUserVars == <<messVars, careerVars, campusAlerts, attendanceVars, backupVars, results, logSeq>>
nonMessVars == <<users, idSeq, careerVars, campusAlerts, attendanceVars, backupVars, results, logSeq>>
nonCareerVars == <<users, idSeq, messVars, campusAlerts, attendanceVars, backupVars, results, logSeq>>
nonAlertVars == <<users, idSeq, messVars, careerVars, attendanceVars, backupVars, results, logSeq>>
nonAttendanceVars == <<users, idSeq, messVars, careerVars, campusAlerts, backupVars, results, logSeq>>

----------------------------------------------------------------------------
(* Bounds of the model. *)

MaxNewUsers == 2
MaxLog == 1
MaxTime == 25
TickHours == 25
SessionHours == 24

Procs == {"c1", "c2"}

----------------------------------------------------------------------------
(* Strings.  Passwords are sequences of UTF-16 code units, because         *)
(* hashPassword encodes them; the other strings are compared only for      *)
(* equality and order, "" is the empty (falsy) string.                     *)

Str_a == <<97>>
Str_x == <<120>>
Str_euro == <<8364>>
Str_demo123 == <<100, 101, 109, 111, 49, 50, 51>>
Str_admin123 == <<97, 100, 109, 105, 110, 49, 50, 51>>
Str_mess123 == <<109, 101, 115, 115, 49, 50, 51>>
Str_nerist_salt == <<110, 101, 114, 105, 115, 116, 95, 115, 97, 108, 116>>

\* Strings of the model in the order IndexedDB sorts string keys (by code unit).
KeyOrder == <<"", "NER20231045", "admin", "admin@nerist.ac.in",
              "ankit.sharma@nerist.ac.in", "bob", "bob@nerist.ac.in",
              "eve", "eve@nerist.ac.in", "mess", "mess@nerist.ac.in">>

Rank(s) == CHOOSE i \in 1..Len(KeyOrder) : KeyOrder[i] = s

Truthy(s) == s # ""

\* btoa: base64 of a string of Latin1 characters, as sextets with 64 for '='.
RECURSIVE Base64(_)
Base64(b) ==
    IF Len(b) = 0 THEN <<>>
    ELSE IF Len(b) = 1 THEN
        <<b[1] \div 4, (b[1] % 4) * 16, 64, 64>>
    ELSE IF Len(b) = 2 THEN
        <<b[1] \div 4, (b[1] % 4) * 16 + (b[2] \div 16), (b[2] % 16) * 4, 64>>
    ELSE
        <<b[1] \div 4, (b[1] % 4) * 16 + (b[2] \div 16),
          (b[2] % 16) * 4 + (b[3] \div 64), b[3] % 64>>
        \o Base64(SubSeq(b, 4, Len(b)))

\* btoa throws InvalidCharacterError on a character outside Latin1.
BtoaThrows(s) == \E i \in 1..Len(s) : s[i] > 255

hashPasswordThrows(password) == BtoaThrows(password \o Str_nerist_salt)

hashPassword(password) == Base64(password \o Str_nerist_salt)

----------------------------------------------------------------------------
(* Values. *)

NoUser == [none |-> TRUE]
NoSession == [none |-> TRUE]
NoToken == ""
NoVal == [none |-> TRUE]
NoLoc == [none |-> TRUE]
Never == -1

SeedUser(id, username, pw, email, role) ==
    [id |-> id, username |-> username, password |-> hashPassword(pw),
     email |-> email, role |-> role, isActive |-> TRUE, createdAt |-> 0]

seedInitialData ==
    LET s == SeedUser("student_001", "NER20231045", Str_demo123,
                      "ankit.sharma@nerist.ac.in", "student")
        a == SeedUser("admin_001", "admin", Str_admin123,
                      "admin@nerist.ac.in", "admin")
        m == SeedUser("mess_001", "mess", Str_mess123,
                      "mess@nerist.ac.in", "mess")
    IN  [id \in {"student_001", "admin_001", "mess_001"} |->
            IF id = "student_001" THEN s ELSE IF id = "admin_001" THEN a ELSE m]

NewUserId(n) == IF n = 0 THEN "user_1" ELSE IF n = 1 THEN "user_2" ELSE "user_3"

\* { ...user, ...updates }
Spread(user, updates) ==
    [f \in DOMAIN user \cup DOMAIN updates |->
        IF f \in DOMAIN updates THEN updates[f] ELSE user[f]]

\* const { password, ...userWithoutPassword } = user
Sanitize(user) == [f \in DOMAIN user \ {"password"} |-> user[f]]

----------------------------------------------------------------------------
(* The object store helpers. *)

\* A 'users' store without unique indexes: no put is rejected.
putUsersRejected_never(store, user) == FALSE

\* store.put on 'users': the unique indexes 'username' and 'email' reject a
\* record whose value is held by a record with another key.
putUsersRejected(store, user) ==
    \E id \in DOMAIN store :
        /\ id # user.id
        /\ \/ store[id].username = user.username
           \/ store[id].email = user.email

putObject(store, rec) ==
    [id \in DOMAIN store \cup {rec.id} |-> IF id = rec.id THEN rec ELSE store[id]]

\* getAllObjects(store, index, query)[0] || null: with a truthy query the
\* records whose indexed field equals it, with a falsy one the whole index in
\* key order.
IndexFirst(store, field, query) ==
    LET hits == IF Truthy(query)
                THEN {id \in DOMAIN store : store[id][field] = query}
                ELSE DOMAIN store
    IN  IF hits = {} THEN NoUser
        ELSE store[CHOOSE id \in hits :
                     \A o \in hits : Rank(store[id][field]) <= Rank(store[o][field])]

\* A lookup that finds nobody.
getUserByUsername_none(username) == NoUser

getUserByUsername(username) == IndexFirst(users, "username", username)

getUserByEmail(email) == IndexFirst(users, "email", email)

getUserById(userId) == IF userId \in DOMAIN users THEN users[userId] ELSE NoUser

\* user.password !== hash: a user stored without a password matches no hash.
passwordDiffers(user, hash) == "password" \notin DOMAIN user \/ user.password # hash

\* logActivity: the put into 'activityLog'; a failed put (here: the store is
\* full) is caught and not rethrown.
logActivity(userId, action) ==
    IF Len(activityLog) < MaxLog
    THEN Append(activityLog, [userId |-> userId, action |-> action])
    ELSE activityLog

----------------------------------------------------------------------------
(* The record of calls: the call started last and, when it succeeded or is *)
(* still in progress, the call started just before it; each with its       *)
(* context, its arguments, its outcome once it returned or threw, whether  *)
(* it ran without any other call in progress (clean), and whether it was   *)
(* started while the call before it was in progress (overlaps).  The value *)
(* returned is kept for the call started last only.                        *)

Idle(p) == pc[p] = "idle"

\* No call is in progress.
Quiescent == \A p \in Procs : Idle(p)

HistBegin(h, p, op, arg) ==
    LET alone == \A q \in Procs \ {p} : Idle(q)
        last == h[Len(h)]
        rec == [proc |-> p, op |-> op, arg |-> arg, res |-> "pending",
                val |-> NoVal, clean |-> alone,
                overlaps |-> Len(h) > 0 /\ last.res = "pending"]
        old == IF Len(h) = 0 \/ last.res \notin {"ok", "pending"} THEN <<>>
               ELSE <<[last EXCEPT !.clean = @ /\ (last.res # "pending"),
                                   !.val = NoVal]>>
    IN  old \o <<rec>>

\* The outcome is entered in the record of the call; the context is named
\* only while the call is in progress.
HistEnd(h, p, res, val) ==
    [i \in 1..Len(h) |->
        IF h[i].proc = p /\ h[i].res = "pending"
        THEN [h[i] EXCEPT !.res = res, !.val = val, !.proc = ""]
        ELSE h[i]]

\* A call returns or throws: the context is idle again.
Return(p, h, res, val) ==
    /\ pc' = [pc EXCEPT ![p] = "idle"]
    /\ loc' = [loc EXCEPT ![p] = NoLoc]
    /\ hist' = HistEnd(h, p, res, val)

\* A call suspends at its next await.
Suspend(p, h, at, locals) ==
    /\ pc' = [pc EXCEPT ![p] = at]
    /\ loc' = [loc EXCEPT ![p] = locals]
    /\ hist' = h

----------------------------------------------------------------------------
Init ==
    /\ users = seedInitialData
    /\ session = NoSession
    /\ token = NoToken
    /\ currentUser = NoUser
    /\ activityLog = <<>>
    /\ logSeq = 0
    /\ messMenu = <<>>
    /\ mealBookings = <<>>
    /\ careerOpportunities = <<>>
    /\ studentApplications = <<>>
    /\ campusAlerts = <<>>
    /\ attendance = <<>>
    /\ attendanceSeq = 0
    /\ results = <<>>
    /\ snapshot = NoVal
    /\ backups = <<>>
    /\ idSeq = 0
    /\ now = 0
    /\ pc = [p \in Procs |-> "idle"]
    /\ loc = [p \in Procs |-> NoLoc]
    /\ hist = <<>>

----------------------------------------------------------------------------
(* Inputs of the user workflows. *)

Candidate(username, password, email, role) ==
    [username |-> username, password |-> password, email |-> email, role |-> role]

Candidates ==
    { Candidate("bob", Str_x, "bob@nerist.ac.in", "student"),
      Candidate("bob", Str_a, "eve@nerist.ac.in", "student"),
      Candidate("eve", Str_a, "bob@nerist.ac.in", "student"),
      Candidate("admin", Str_x, "eve@nerist.ac.in", "student"),
      Candidate("admin", Str_x, "admin@nerist.ac.in", "student"),
      Candidate("eve", Str_euro, "eve@nerist.ac.in", "student"),
      Candidate("bob", <<>>, "bob@nerist.ac.in", "student") }

Credentials(username, password) == [username |-> username, password |-> password]

RegisterLogins == { Credentials("bob", Str_x), Credentials("bob", Str_a) }

SessionLogins ==
    { Credentials("NER20231045", Str_demo123), Credentials("NER20231045", Str_x),
      Credentials("NER20231045", Str_euro), Credentials("", Str_demo123),
      Credentials("bob", Str_x) }

ProfileIds == {"student_001"}
ProfileUpdates == { [isActive |-> FALSE] }

\* Update sets that carry protected fields: with a value, and with the empty
\* string or null.
ProtectedUpdates ==
    { [username |-> "eve"], [username |-> ""], [role |-> ""],
      [createdAt |-> Never], [id |-> ""] }

----------------------------------------------------------------------------
(* registerUser *)

\* if (!userData.username || !userData.password || !userData.email || !userData.role)
MissingRequiredFields(userData) ==
    \/ ~Truthy(userData.username)
    \/ userData.password = <<>>
    \/ ~Truthy(userData.email)
    \/ ~Truthy(userData.role)

\* The call, the validation and the lookup by username.  At most MaxNewUsers
\* ids are generated: a call that gets past the lookup is started only while
\* there is one left for it.
registerUser(p, userData) ==
    /\ Idle(p)
    /\ LET h == HistBegin(hist, p, "register", userData) IN
       IF MissingRequiredFields(userData)
       THEN Return(p, h, "ValidationError", NoVal)
       ELSE IF getUserByUsername(userData.username) # NoUser
       THEN Return(p, h, "ConflictError", NoVal)
       ELSE /\ idSeq + Cardinality({q \in Procs : pc[q] = "register_email"}) < MaxNewUsers
            /\ Suspend(p, h, "register_email", [userData |-> userData])
    /\ UNCHANGED <<nonUserVars, users, session, token, currentUser, activityLog, idSeq, now>>

\* The lookup by email returned: the id is generated and the record built.
registerEmail(p) ==
    /\ pc[p] = "register_email"
    /\ LET userData == loc[p].userData IN
       IF getUserByEmail(userData.email) # NoUser
       THEN /\ Return(p, hist, "ConflictError", NoVal)
            /\ idSeq' = idSeq
       ELSE IF hashPasswordThrows(userData.password)
       THEN /\ Return(p, hist, "InvalidCharacterError", NoVal)
            /\ idSeq' = idSeq
       ELSE /\ idSeq' = idSeq + 1
            /\ Suspend(p, hist, "register_put",
                 [user |-> [id |-> NewUserId(idSeq),
                            username |-> userData.username,
                            password |-> hashPassword(userData.password),
                            email |-> userData.email,
                            role |-> userData.role,
                            isActive |-> TRUE,
                            createdAt |-> now,
                            lastLogin |-> Never]])
    /\ UNCHANGED <<nonUserVars, users, session, token, currentUser, activityLog, now>>

\* await this.putObject('users', user)
registerPut(p) ==
    /\ pc[p] = "register_put"
    /\ IF putUsersRejected(users, loc[p].user)
       THEN /\ Return(p, hist, "ConstraintError", NoVal)
            /\ users' = users
       ELSE /\ users' = putObject(users, loc[p].user)
            /\ Suspend(p, hist, "register_log", loc[p])
    /\ UNCHANGED <<nonUserVars, session, token, currentUser, activityLog, idSeq, now>>

\* await this.logActivity(userId, 'register', ...), then the return.
registerLog(p) ==
    /\ pc[p] = "register_log"
    /\ activityLog' = logActivity(loc[p].user.id, "register")
    /\ Return(p, hist, "ok", Sanitize(loc[p].user))
    /\ UNCHANGED <<nonUserVars, users, session, token, currentUser, idSeq, now>>

----------------------------------------------------------------------------
(* login, createSession, logout *)

\* createSession: the descriptor and the token written to localStorage.
createSession(user) ==
    [userId |-> user.id, username |-> user.username, role |-> user.role,
     createdAt |-> now, expiresAt |-> now + SessionHours]

generateToken(userId) == userId

\* The call and the lookup by username; the checks; the put is issued.
login(p, username, password) ==
    /\ Idle(p)
    /\ LET h == HistBegin(hist, p, "login", [username |-> username, password |-> password])
           user == getUserByUsername(username)
       IN  IF user = NoUser
           THEN Return(p, h, "NotFoundError", NoVal)
           ELSE IF ~user.isActive
           THEN Return(p, h, "DeactivatedError", NoVal)
           ELSE IF hashPasswordThrows(password)
           THEN Return(p, h, "InvalidCharacterError", NoVal)
           ELSE IF passwordDiffers(user, hashPassword(password))
           THEN Return(p, h, "AuthError", NoVal)
           ELSE Suspend(p, h, "login_put", [user |-> Spread(user, [lastLogin |-> now])])
    /\ UNCHANGED <<nonUserVars, users, session, token, currentUser, activityLog, idSeq, now>>

\* await this.putObject('users', user), then createSession(user), which runs
\* to its end before login is suspended again.
loginPut(p) ==
    /\ pc[p] = "login_put"
    /\ IF putUsersRejected(users, loc[p].user)
       THEN /\ Return(p, hist, "ConstraintError", NoVal)
            /\ UNCHANGED <<users, session, token>>
       ELSE /\ users' = putObject(users, loc[p].user)
            /\ session' = createSession(loc[p].user)
            /\ token' = generateToken(loc[p].user.id)
            /\ Suspend(p, hist, "login_log", loc[p])
    /\ UNCHANGED <<nonUserVars, currentUser, activityLog, idSeq, now>>

\* await this.logActivity(user.id, 'login', ...), then this.currentUser is set.
loginLog(p) ==
    /\ pc[p] = "login_log"
    /\ activityLog' = logActivity(loc[p].user.id, "login")
    /\ currentUser' = Sanitize(loc[p].user)
    /\ Return(p, hist, "ok", Sanitize(loc[p].user))
    /\ UNCHANGED <<nonUserVars, users, session, token, idSeq, now>>

\* logout with nobody in memory removes the session without suspending; with a
\* current user it first awaits the activity log.
logout(p) ==
    /\ Idle(p)
    /\ LET h == HistBegin(hist, p, "logout", NoVal) IN
       IF currentUser # NoUser
       THEN /\ Suspend(p, h, "logout_log", [userId |-> currentUser.id])
            /\ UNCHANGED <<session, token, currentUser>>
       ELSE /\ session' = NoSession
            /\ token' = NoToken
            /\ currentUser' = NoUser
            /\ Return(p, h, "ok", NoVal)
    /\ UNCHANGED <<nonUserVars, users, activityLog, idSeq, now>>

logoutLog(p) ==
    /\ pc[p] = "logout_log"
    /\ activityLog' = logActivity(loc[p].userId, "logout")
    /\ session' = NoSession
    /\ token' = NoToken
    /\ currentUser' = NoUser
    /\ Return(p, hist, "ok", NoVal)
    /\ UNCHANGED <<nonUserVars, users, idSeq, now>>

----------------------------------------------------------------------------
(* getCurrentUser, restoreSession *)

\* The user in memory is returned as it is; otherwise the stored session, if
\* any, names the user to fetch.
getCurrentUser(p) ==
    /\ Idle(p)
    /\ LET h == HistBegin(hist, p, "getCurrentUser", NoVal) IN
       IF currentUser # NoUser
       THEN Return(p, h, "ok", currentUser)
       ELSE IF session = NoSession
       THEN Return(p, h, "ok", NoUser)
       ELSE Suspend(p, h, "current_get", [userId |-> session.userId])
    /\ UNCHANGED <<nonUserVars, users, session, token, currentUser, activityLog, idSeq, now>>

\* await this.getUserById(sessionData.userId)
getCurrentUserGet(p) ==
    /\ pc[p] = "current_get"
    /\ LET user == getUserById(loc[p].userId) IN
       IF user # NoUser /\ user.isActive
       THEN /\ currentUser' = Sanitize(user)
            /\ Return(p, hist, "ok", Sanitize(user))
       ELSE /\ currentUser' = currentUser
            /\ Return(p, hist, "ok", NoUser)
    /\ UNCHANGED <<nonUserVars, users, session, token, activityLog, idSeq, now>>

\* The page is loaded again: a new backend instance, whose initialize() runs
\* restoreSession before anything else is called; the calls of the old page
\* are gone with it.
restoreSession ==
    /\ \A p \in Procs : Idle(p)
    /\ IF session = NoSession
       THEN /\ currentUser' = NoUser
            /\ UNCHANGED <<session, token>>
       ELSE IF session.expiresAt < now
       THEN /\ session' = NoSession
            /\ token' = NoToken
            /\ currentUser' = NoUser
       ELSE LET user == getUserById(session.userId) IN
            IF user = NoUser \/ ~user.isActive
            THEN /\ session' = NoSession
                 /\ token' = NoToken
                 /\ currentUser' = NoUser
            ELSE /\ currentUser' = Sanitize(user)
                 /\ UNCHANGED <<session, token>>
    /\ hist' = <<>>
    /\ UNCHANGED <<nonUserVars, users, activityLog, idSeq, now, pc, loc>>

----------------------------------------------------------------------------
(* updateUserProfile *)

RestrictedFields == {"id", "username", "role", "createdAt"}

\* if (updates[field]) delete updates[field]
FieldTruthy(field, value) == IF field = "createdAt" THEN value # Never ELSE value # ""

StripRestricted(updates) ==
    [f \in {g \in DOMAIN updates :
              ~(g \in RestrictedFields /\ FieldTruthy(g, updates[g]))} |-> updates[f]]

updateUserProfile(p, userId, updates) ==
    /\ Idle(p)
    /\ LET h == HistBegin(hist, p, "updateProfile", [userId |-> userId, updates |-> updates])
           user == getUserById(userId)
       IN  IF user = NoUser
           THEN Return(p, h, "NotFoundError", NoVal)
           ELSE Suspend(p, h, "update_put",
                        [userId |-> userId,
                         user |-> Spread(user, StripRestricted(updates))])
    /\ UNCHANGED <<nonUserVars, users, session, token, currentUser, activityLog, idSeq, now>>

updateUserProfilePut(p) ==
    /\ pc[p] = "update_put"
    /\ IF putUsersRejected(users, loc[p].user)
       THEN /\ Return(p, hist, "ConstraintError", NoVal)
            /\ users' = users
       ELSE /\ users' = putObject(users, loc[p].user)
            /\ Suspend(p, hist, "update_log", loc[p])
    /\ UNCHANGED <<nonUserVars, session, token, currentUser, activityLog, idSeq, now>>

updateUserProfileLog(p) ==
    /\ pc[p] = "update_log"
    /\ activityLog' = logActivity(loc[p].userId, "update_profile")
    /\ Return(p, hist, "ok", Sanitize(loc[p].user))
    /\ UNCHANGED <<nonUserVars, users, session, token, currentUser, idSeq, now>>

----------------------------------------------------------------------------
(* changePassword *)

PasswordChange(userId, oldPassword, newPassword) ==
    [userId |-> userId, oldPassword |-> oldPassword, newPassword |-> newPassword]

PasswordChanges ==
    { PasswordChange("student_001", Str_demo123, Str_x),
      PasswordChange("student_001", Str_a, Str_x),
      PasswordChange("student_001", Str_euro, Str_x),
      PasswordChange("student_001", Str_demo123, Str_euro),
      PasswordChange("nobody", Str_demo123, Str_x) }

PasswordLogins ==
    { Credentials("NER20231045", Str_demo123), Credentials("NER20231045", Str_x) }

\* The call and getUserById; the old password is verified, the new one hashed
\* into the copy that was read, and the put is issued.
changePassword(p, userId, oldPassword, newPassword) ==
    /\ Idle(p)
    /\ LET h == HistBegin(hist, p, "changePassword",
                          PasswordChange(userId, oldPassword, newPassword))
           user == getUserById(userId)
       IN  IF user = NoUser
           THEN Return(p, h, "NotFoundError", NoVal)
           ELSE IF hashPasswordThrows(oldPassword)
           THEN Return(p, h, "InvalidCharacterError", NoVal)
           ELSE IF passwordDiffers(user, hashPassword(oldPassword))
           THEN Return(p, h, "AuthError", NoVal)
           ELSE IF hashPasswordThrows(newPassword)
           THEN Return(p, h, "InvalidCharacterError", NoVal)
           ELSE Suspend(p, h, "change_put",
                  [userId |-> userId,
                   user |-> Spread(user, [password |-> hashPassword(newPassword)])])
    /\ UNCHANGED <<nonUserVars, users, session, token, currentUser, activityLog, idSeq, now>>

\* await this.putObject('users', user)
changePasswordPut(p) ==
    /\ pc[p] = "change_put"
    /\ IF putUsersRejected(users, loc[p].user)
       THEN /\ Return(p, hist, "ConstraintError", NoVal)
            /\ users' = users
       ELSE /\ users' = putObject(users, loc[p].user)
            /\ Suspend(p, hist, "change_log", loc[p])
    /\ UNCHANGED <<nonUserVars, session, token, currentUser, activityLog, idSeq, now>>

\* await this.logActivity(userId, 'change_password', ...), then return true.
changePasswordLog(p) ==
    /\ pc[p] = "change_log"
    /\ activityLog' = logActivity(loc[p].userId, "change_password")
    /\ Return(p, hist, "ok", NoVal)
    /\ UNCHANGED <<nonUserVars, users, session, token, currentUser, idSeq, now>>

----------------------------------------------------------------------------
(* Time passes. *)

Tick ==
    /\ now + TickHours <= MaxTime
    /\ now' = now + TickHours
    /\ UNCHANGED <<nonUserVars, users, session, token, currentUser, activityLog, idSeq, pc, loc, hist>>

----------------------------------------------------------------------------
(* The current user as the workflows obtain it: await this.getCurrentUser(), *)
(* which also leaves the user it resolved in this.currentUser.              *)

AwaitCurrentUser ==
    IF currentUser # NoUser THEN currentUser
    ELSE IF session = NoSession THEN NoUser
    ELSE LET user == getUserById(session.userId) IN
         IF user # NoUser /\ user.isActive THEN Sanitize(user) ELSE NoUser

----------------------------------------------------------------------------
(* Numbers: IEEE 754 doubles, their division, Math.round and toFixed.      *)

\* Numbers are IEEE 754 doubles: a significand of 53 bits and a binary
\* exponent.  [m |-> <<1, a, b, c, d>>, e |-> e] stands for m * 2^(e - 52),
\* where m is read in base 2^13: 1 bit followed by 4 digits of 13 bits.
Digit == 8192
Digits == 4

\* The value of the first n digits of a significand.
RECURSIVE Leading(_, _)
Leading(m, n) == IF n = 0 THEN 0 ELSE Leading(m, n - 1) * Digit + m[n]

RECURSIVE Pow2(_)
Pow2(n) == IF n = 0 THEN 1 ELSE 2 * Pow2(n - 1)

\* m + 1, the carry running from the last digit up.
RECURSIVE Successor(_, _)
Successor(m, i) ==
    IF i = 1 THEN <<m[1] + 1>>
    ELSE IF m[i] + 1 < Digit
    THEN SubSeq(m, 1, i - 1) \o <<m[i] + 1>>
    ELSE Successor(m, i - 1) \o <<0>>

\* Round to nearest, ties to even: the significand is raised by one when the
\* part dropped behind it (rest out of whole) is more than a half, or is a
\* half and the last kept bit is set; 2^53 is 1 at the next exponent.
Rounded(f, rest, whole) ==
    IF 2 * rest > whole \/ (2 * rest = whole /\ f.m[Digits + 1] % 2 = 1)
    THEN LET up == Successor(f.m, Digits + 1) IN
         IF up[1] = 2 THEN [m |-> <<1, 0, 0, 0, 0>>, e |-> f.e + 1]
         ELSE [m |-> up, e |-> f.e]
    ELSE f

\* The least s with num * 2^s >= den.
RECURSIVE Normalize(_, _)
Normalize(num, den) == IF num >= den THEN 0 ELSE 1 + Normalize(2 * num, den)

\* Long division: the next n digits of r / den for a remainder r < den, and
\* the remainder after them.
RECURSIVE QuotientDigits(_, _, _)
QuotientDigits(r, den, n) ==
    IF n = 0 THEN <<>>
    ELSE <<(r * Digit) \div den>> \o QuotientDigits((r * Digit) % den, den, n - 1)

RECURSIVE Remainder(_, _, _)
Remainder(r, den, n) == IF n = 0 THEN r ELSE Remainder((r * Digit) % den, den, n - 1)

\* present / total for 0 < present <= total.
Divide(num, den) ==
    LET s == Normalize(num, den)
        r == num * Pow2(s) - den
    IN  Rounded([m |-> <<1>> \o QuotientDigits(r, den, Digits), e |-> 0 - s],
                Remainder(r, den, Digits), den)

\* m * k for a small k, the carry running from digit i up; the first digit
\* takes what is left.
RECURSIVE Product(_, _, _, _)
Product(m, k, i, carry) ==
    IF i = 1 THEN <<m[1] * k + carry>>
    ELSE Product(m, k, i - 1, (m[i] * k + carry) \div Digit)
           \o <<(m[i] * k + carry) % Digit>>

\* m \div 2^d, the remainder running from the first digit down.
RECURSIVE Halved(_, _, _, _)
Halved(m, d, i, rem) ==
    IF i > Len(m) THEN <<>>
    ELSE <<(rem * Digit + m[i]) \div Pow2(d)>>
           \o Halved(m, d, i + 1, (rem * Digit + m[i]) % Pow2(d))

\* x * 100: the exact product has 6 or 7 bits more than a significand, and
\* is rounded to 53 bits.
Times100(f) ==
    LET prod == Product(f.m, 100, Digits + 1, 0)
        d == IF prod[1] >= 128 THEN 7 ELSE 6
        kept == <<prod[1] \div Pow2(d)>>
                  \o Halved(SubSeq(prod, 2, Digits + 1), d, 1, prod[1] % Pow2(d))
    IN  Rounded([m |-> kept, e |-> f.e + d], prod[Digits + 1] % Pow2(d), Pow2(d))

\* Math.round(x) for 0 < x < 2^13: the integer part of x + 0.5, that is x
\* cut behind its first binary place, plus one, halved.  The first two
\* digits of the significand hold the 14 leading bits.
MathRound(f) ==
    IF f.e < 0 - 1 THEN 0
    ELSE (Leading(f.m, 2) \div Pow2(13 - 1 - f.e) + 1) \div 2

\* The least t with num < den * 2^(t + 1).
RECURSIVE Scale(_, _)
Scale(num, den) == IF num < 2 * den THEN 0 ELSE 1 + Scale(num, 2 * den)

\* num / den for 0 < num and 0 < den, rounded to a double.
Quotient(num, den) ==
    LET t == Scale(num, den) IN
    [Divide(num, den * Pow2(t)) EXCEPT !.e = @ + t]

\* x.toFixed(d) for 0 < x < 2^12, with k = 10^d: the integer n for which
\* n / k - x is closest to zero, the larger one of two, on the exact value
\* of the double; that is the integer part of 2 * k * x, plus one, halved.
toFixed(f, k) ==
    IF f.e < 0 - 8 THEN 0
    ELSE (Leading(Product(f.m, k, Digits + 1, 0), 2) \div Pow2(12 - f.e) + 1) \div 2

----------------------------------------------------------------------------
(* Mess management: saveMessMenu, bookMeal, submitMealFeedback *)

Dates == {"d1"}
MealDatas == { [mealType |-> "lunch"], [mealType |-> "lunch", active |-> FALSE] }
MealTypes == {"lunch"}
ImportMealDatas == { [mealType |-> "lunch"] }
Students == {"student_001", "user_1"}
MessLogins == { Credentials("mess", Str_mess123) }

\* `${date}_${mealType}` and `${date}_${mealType}_${studentId}`
MenuId(date, mealType) == <<date, mealType>>
BookingId(date, mealType, studentId) == <<date, mealType, studentId>>

getObject(store, key) == IF key \in DOMAIN store THEN store[key] ELSE NoVal

\* A check that finds no booking.
existingBooking_absent(menu, studentId) == FALSE

\* menu.bookings.find(b => b.studentId === studentId)
existingBooking(menu, studentId) ==
    \E i \in 1..Len(menu.bookings) : menu.bookings[i].studentId = studentId

saveMessMenu(p, date, mealData) ==
    /\ Idle(p)
    /\ LET h == HistBegin(hist, p, "saveMessMenu", [date |-> date, mealData |-> mealData])
           user == AwaitCurrentUser
       IN  /\ currentUser' = user
           /\ IF user = NoUser
              THEN Return(p, h, "NotAuthenticated", NoVal)
              ELSE Suspend(p, h, "menu_put",
                     [menu |-> [id |-> MenuId(date, mealData.mealType),
                                date |-> date,
                                mealType |-> mealData.mealType,
                                active |-> IF "active" \in DOMAIN mealData
                                           THEN mealData.active ELSE TRUE,
                                createdBy |-> user.id,
                                bookings |-> <<>>,
                                feedback |-> <<>>]])
    /\ UNCHANGED <<nonMessVars, messVars, session, token, activityLog, now>>

saveMessMenuPut(p) ==
    /\ pc[p] = "menu_put"
    /\ messMenu' = putObject(messMenu, loc[p].menu)
    /\ Suspend(p, hist, "menu_log", loc[p])
    /\ UNCHANGED <<nonMessVars, mealBookings, session, token, currentUser, activityLog, now>>

saveMessMenuLog(p) ==
    /\ pc[p] = "menu_log"
    /\ activityLog' = logActivity(loc[p].menu.createdBy, "save_mess_menu")
    /\ Return(p, hist, "ok", loc[p].menu)
    /\ UNCHANGED <<nonMessVars, messVars, session, token, currentUser, now>>

\* The call and the read of the menu; the checks; the booking is pushed onto
\* the copy that was read and the put is issued.
bookMeal(p, date, mealType, studentId) ==
    /\ Idle(p)
    /\ LET h == HistBegin(hist, p, "bookMeal",
                          [date |-> date, mealType |-> mealType, studentId |-> studentId])
           menu == getObject(messMenu, MenuId(date, mealType))
       IN  IF menu = NoVal
           THEN Return(p, h, "NotFoundError", NoVal)
           ELSE IF ~menu.active
           THEN Return(p, h, "InactiveError", NoVal)
           ELSE IF existingBooking(menu, studentId)
           THEN Return(p, h, "DuplicateBookingError", NoVal)
           ELSE LET bookings == Append(menu.bookings,
                                       [studentId |-> studentId, bookedAt |-> now])
                IN  Suspend(p, h, "book_put",
                      [date |-> date, mealType |-> mealType, studentId |-> studentId,
                       menu |-> Spread(menu, [bookings |-> bookings,
                                              bookedCount |-> Len(bookings)])])
    /\ UNCHANGED <<nonMessVars, messVars, session, token, currentUser, activityLog, now>>

\* await this.putObject('messMenu', menu)
bookMealPut(p) ==
    /\ pc[p] = "book_put"
    /\ messMenu' = putObject(messMenu, loc[p].menu)
    /\ Suspend(p, hist, "book_record", loc[p])
    /\ UNCHANGED <<nonMessVars, mealBookings, session, token, currentUser, activityLog, now>>

\* await this.putObject('mealBookings', {...})
bookMealRecord(p) ==
    /\ pc[p] = "book_record"
    /\ mealBookings' = putObject(mealBookings,
          [id |-> BookingId(loc[p].date, loc[p].mealType, loc[p].studentId),
           date |-> loc[p].date, mealType |-> loc[p].mealType,
           studentId |-> loc[p].studentId, bookedAt |-> now])
    /\ Suspend(p, hist, "book_log", loc[p])
    /\ UNCHANGED <<nonMessVars, messMenu, session, token, currentUser, activityLog, now>>

bookMealLog(p) ==
    /\ pc[p] = "book_log"
    /\ activityLog' = logActivity(loc[p].studentId, "book_meal")
    /\ Return(p, hist, "ok", loc[p].menu)
    /\ UNCHANGED <<nonMessVars, messVars, session, token, currentUser, now>>

MaxFeedback == 2
MinFeedback == 17
MaxRatings == 20
Ratings == {1, 2}

\* The entries of menu.feedback.
Feedback(studentId, rating) == [studentId |-> studentId, rating |-> rating]

\* menu.feedback.reduce((sum, f) => sum + f.rating, 0)
RECURSIVE totalRating(_)
totalRating(feedback) ==
    IF feedback = <<>> THEN 0 ELSE Head(feedback).rating + totalRating(Tail(feedback))

\* (totalRating / menu.feedback.length).toFixed(1), kept as the integer its
\* digits spell ("1.5" as 15).
averageRating(feedback) ==
    toFixed(Quotient(totalRating(feedback), Len(feedback)), 10)

\* The feedback entries of calls that have read the menu and not yet written.
FeedbackInFlight == Cardinality({q \in Procs : pc[q] = "feedback_put"})

\* The feedback lists the model follows: the short ones, of up to MaxFeedback
\* entries, and the long ones, of MinFeedback to MaxRatings entries.
FeedbackRoom(menu) ==
    LET n == Len(menu.feedback) + FeedbackInFlight IN
    n < MaxFeedback \/ (Len(menu.feedback) >= MinFeedback /\ n < MaxRatings)

\* submitMealFeedback(date, mealType, studentId, rating, comment): the read
\* of the menu; the entry is pushed onto the copy that was read, the average
\* is computed over the copy and the put is issued.
submitMealFeedback(p, date, mealType, studentId, rating) ==
    /\ Idle(p)
    /\ LET h == HistBegin(hist, p, "submitMealFeedback",
                          [date |-> date, mealType |-> mealType,
                           studentId |-> studentId, rating |-> rating])
           menu == getObject(messMenu, MenuId(date, mealType))
       IN  IF menu = NoVal
           THEN Return(p, h, "NotFoundError", NoVal)
           ELSE /\ FeedbackRoom(menu)
                /\ LET feedback == Append(menu.feedback, Feedback(studentId, rating))
                   IN  Suspend(p, h, "feedback_put",
                         [studentId |-> studentId,
                          menu |-> Spread(menu, [feedback |-> feedback,
                                                 averageRating |-> averageRating(feedback)])])
    /\ UNCHANGED <<nonMessVars, messVars, session, token, currentUser, activityLog, now>>

\* await this.putObject('messMenu', menu)
submitMealFeedbackPut(p) ==
    /\ pc[p] = "feedback_put"
    /\ messMenu' = putObject(messMenu, loc[p].menu)
    /\ Suspend(p, hist, "feedback_log", loc[p])
    /\ UNCHANGED <<nonMessVars, mealBookings, session, token, currentUser, activityLog, now>>

submitMealFeedbackLog(p) ==
    /\ pc[p] = "feedback_log"
    /\ activityLog' = logActivity(loc[p].studentId, "meal_feedback")
    /\ Return(p, hist, "ok", loc[p].menu)
    /\ UNCHANGED <<nonMessVars, messVars, session, token, currentUser, now>>

NextMess ==
    \/ \E p \in Procs, c \in MessLogins : login(p, c.username, c.password)
    \/ \E p \in Procs : loginPut(p)
    \/ \E p \in Procs : loginLog(p)
    \/ \E p \in Procs, d \in Dates, m \in MealDatas : saveMessMenu(p, d, m)
    \/ \E p \in Procs : saveMessMenuPut(p)
    \/ \E p \in Procs : saveMessMenuLog(p)
    \/ \E p \in Procs, d \in Dates, m \in MealTypes, st \in Students : bookMeal(p, d, m, st)
    \/ \E p \in Procs : bookMealPut(p)
    \/ \E p \in Procs : bookMealRecord(p)
    \/ \E p \in Procs : bookMealLog(p)

SpecMess == Init /\ [][NextMess]_vars

\* A menu as saveMessMenu stores it and n calls of submitMealFeedback leave
\* it, the first `twos' of them with rating 2 and the others with rating 1.
RatedMenu(n, twos) ==
    LET menu == [id |-> MenuId("d1", "lunch"), date |-> "d1", mealType |-> "lunch",
                 active |-> TRUE, createdBy |-> "mess_001", bookings |-> <<>>,
                 feedback |-> [i \in 1..n |->
                                 Feedback("student_001", IF i <= twos THEN 2 ELSE 1)]]
    IN  IF n = 0 THEN menu
        ELSE Spread(menu, [averageRating |-> averageRating(menu.feedback)])

\* The store after the mess manager saved a menu and feedback was submitted
\* at least MinFeedback and fewer than MaxRatings times.
InitFeedback ==
    /\ \E n \in MinFeedback..(MaxRatings - 1), twos \in 0..(MaxRatings - 1) :
         /\ twos <= n
         /\ messMenu = (MenuId("d1", "lunch") :> RatedMenu(n, twos))
    /\ users = seedInitialData
    /\ session = NoSession
    /\ token = NoToken
    /\ currentUser = NoUser
    /\ activityLog = <<[userId |-> "mess_001", action |-> "save_mess_menu"]>>
    /\ logSeq = 0
    /\ mealBookings = <<>>
    /\ careerOpportunities = <<>>
    /\ studentApplications = <<>>
    /\ campusAlerts = <<>>
    /\ attendance = <<>>
    /\ attendanceSeq = 0
    /\ results = <<>>
    /\ snapshot = NoVal
    /\ backups = <<>>
    /\ idSeq = 0
    /\ now = 0
    /\ pc = [p \in Procs |-> "idle"]
    /\ loc = [p \in Procs |-> NoLoc]
    /\ hist = <<>>

NextFeedback ==
    \/ \E p \in Procs, d \in Dates, m \in MealTypes, r \in Ratings :
         submitMealFeedback(p, d, m, "student_001", r)
    \/ \E p \in Procs : submitMealFeedbackPut(p)
    \/ \E p \in Procs : submitMealFeedbackLog(p)

SpecFeedback == InitFeedback /\ [][NextFeedback]_vars

\* Bookings and feedback on one menu from overlapping calls.
NextBooking ==
    \/ \E p \in Procs, c \in MessLogins : Quiescent /\ login(p, c.username, c.password)
    \/ \E p \in Procs : loginPut(p)
    \/ \E p \in Procs : loginLog(p)
    \/ \E p \in Procs, d \in Dates, m \in ImportMealDatas : Quiescent /\ saveMessMenu(p, d, m)
    \/ \E p \in Procs : saveMessMenuPut(p)
    \/ \E p \in Procs : saveMessMenuLog(p)
    \/ \E p \in Procs, d \in Dates, m \in MealTypes, st \in Students : bookMeal(p, d, m, st)
    \/ \E p \in Procs : bookMealPut(p)
    \/ \E p \in Procs : bookMealRecord(p)
    \/ \E p \in Procs : bookMealLog(p)
    \/ \E p \in Procs, d \in Dates, m \in MealTypes :
         submitMealFeedback(p, d, m, "student_001", 1)
    \/ \E p \in Procs : submitMealFeedbackPut(p)
    \/ \E p \in Procs : submitMealFeedbackLog(p)

SpecBooking == Init /\ [][NextBooking]_vars

\* Menus given with bookings, feedback and counts of their own.
SuppliedMealDatas ==
    { [mealType |-> "lunch",
       bookings |-> <<[studentId |-> "user_1", bookedAt |-> 0]>>,
       bookedCount |-> 1],
      [mealType |-> "lunch",
       feedback |-> <<[studentId |-> "user_1", rating |-> 4]>>,
       averageRating |-> 40] }

\* Menus saved again over menus that hold bookings, calls one at a time.
NextMenu ==
    \/ \E p \in Procs, c \in MessLogins : Quiescent /\ login(p, c.username, c.password)
    \/ \E p \in Procs : loginPut(p)
    \/ \E p \in Procs : loginLog(p)
    \/ \E p \in Procs, d \in Dates, m \in MealDatas \cup SuppliedMealDatas :
         Quiescent /\ saveMessMenu(p, d, m)
    \/ \E p \in Procs : saveMessMenuPut(p)
    \/ \E p \in Procs : saveMessMenuLog(p)
    \/ \E p \in Procs, d \in Dates, m \in MealTypes, st \in Students :
         Quiescent /\ bookMeal(p, d, m, st)
    \/ \E p \in Procs : bookMealPut(p)
    \/ \E p \in Procs : bookMealRecord(p)
    \/ \E p \in Procs : bookMealLog(p)

SpecMenu == Init /\ [][NextMenu]_vars

----------------------------------------------------------------------------
(* Career opportunities: createCareerOpportunity, applyForOpportunity *)

MaxOpportunities == 1

OpportunityIds == 1..MaxOpportunities
OpenOpportunity == { [title |-> "job"] }
OpportunityDatas == OpenOpportunity \cup { [title |-> "job", deadline |-> 0] }
StudentLogin == { Credentials("NER20231045", Str_demo123) }
AdminLogin == { Credentials("admin", Str_admin123) }
CareerLogins == StudentLogin \cup { Credentials("admin", Str_admin123) }

\* The key an autoIncrement store gives the next record put without one.
NextKey(store) == Cardinality(DOMAIN store) + 1

\* The store is kept to MaxOpportunities records: a call is started only
\* while there is room for the record it will put.
\* Of the opportunity and of the application, the fields a workflow reads
\* are kept; the timestamps nothing reads (createdAt, appliedDate,
\* lastUpdated) are left out.
createCareerOpportunity(p, opportunityData) ==
    /\ Idle(p)
    /\ Cardinality(DOMAIN careerOpportunities)
         + Cardinality({q \in Procs : pc[q] = "opportunity_put"}) < MaxOpportunities
    /\ LET h == HistBegin(hist, p, "createCareerOpportunity", opportunityData)
           user == AwaitCurrentUser
       IN  /\ currentUser' = user
           /\ IF user = NoUser
              THEN Return(p, h, "NotAuthenticated", NoVal)
              ELSE Suspend(p, h, "opportunity_put",
                     [opportunity |-> Spread(opportunityData,
                                        [createdBy |-> user.id, status |-> "active",
                                         applicants |-> 0])])
    /\ UNCHANGED <<nonCareerVars, careerVars, session, token, activityLog, now>>

createCareerOpportunityPut(p) ==
    /\ pc[p] = "opportunity_put"
    /\ LET id == NextKey(careerOpportunities) IN
       /\ careerOpportunities' =
             putObject(careerOpportunities, Spread(loc[p].opportunity, [id |-> id]))
       /\ Suspend(p, hist, "opportunity_log", Spread(loc[p], [id |-> id]))
    /\ UNCHANGED <<nonCareerVars, studentApplications, session, token, currentUser,
                   activityLog, now>>

createCareerOpportunityLog(p) ==
    /\ pc[p] = "opportunity_log"
    /\ activityLog' = logActivity(loc[p].opportunity.createdBy, "create_opportunity")
    /\ Return(p, hist, "ok", Spread(loc[p].opportunity, [id |-> loc[p].id]))
    /\ UNCHANGED <<nonCareerVars, careerVars, session, token, currentUser, now>>

\* The call and getCurrentUser; the read of the opportunity is issued.
applyForOpportunity(p, opportunityId) ==
    /\ Idle(p)
    /\ LET user == AwaitCurrentUser
           h == HistBegin(hist, p, "applyForOpportunity",
                          [opportunityId |-> opportunityId,
                           studentId |-> IF user = NoUser THEN "" ELSE user.id])
       IN  /\ currentUser' = user
           /\ IF user = NoUser
              THEN Return(p, h, "NotAuthenticated", NoVal)
              ELSE Suspend(p, h, "apply_get",
                           [opportunityId |-> opportunityId, currentUser |-> user])
    /\ UNCHANGED <<nonCareerVars, careerVars, session, token, activityLog, now>>

\* if (opportunity.deadline && new Date(opportunity.deadline) < new Date())
deadlinePassed(opportunity) ==
    "deadline" \in DOMAIN opportunity /\ opportunity.deadline < now

\* await this.getObject('careerOpportunities', opportunityId)
applyGet(p) ==
    /\ pc[p] = "apply_get"
    /\ LET opportunity == getObject(careerOpportunities, loc[p].opportunityId) IN
       IF opportunity = NoVal
       THEN Return(p, hist, "NotFoundError", NoVal)
       ELSE IF deadlinePassed(opportunity)
       THEN Return(p, hist, "DeadlinePassedError", NoVal)
       ELSE Suspend(p, hist, "apply_check", Spread(loc[p], [opportunity |-> opportunity]))
    /\ UNCHANGED <<nonCareerVars, careerVars, session, token, currentUser, activityLog, now>>

\* A check that finds no application.
alreadyApplied_never(studentId, opportunityId) == FALSE

\* existingApplications.some(app => app.opportunityId === opportunityId), over
\* getAllObjects('studentApplications', 'studentId', currentUser.id)
alreadyApplied(studentId, opportunityId) ==
    \E id \in DOMAIN studentApplications :
        /\ studentApplications[id].studentId = studentId
        /\ studentApplications[id].opportunityId = opportunityId

applyCheck(p) ==
    /\ pc[p] = "apply_check"
    /\ IF alreadyApplied(loc[p].currentUser.id, loc[p].opportunityId)
       THEN Return(p, hist, "DuplicateApplicationError", NoVal)
       ELSE Suspend(p, hist, "apply_put",
              Spread(loc[p], [application |->
                 [studentId |-> loc[p].currentUser.id,
                  opportunityId |-> loc[p].opportunityId,
                  status |-> "pending"]]))
    /\ UNCHANGED <<nonCareerVars, careerVars, session, token, currentUser, activityLog, now>>

\* A counter raised by two.
Incremented_twice(opportunity) == [opportunity EXCEPT !.applicants = @ + 2]

\* opportunity.applicants = (opportunity.applicants || 0) + 1
Incremented(opportunity) == [opportunity EXCEPT !.applicants = @ + 1]

\* await this.putObject('studentApplications', application); then the
\* applicants of the opportunity that was read are raised by one.
applyPut(p) ==
    /\ pc[p] = "apply_put"
    /\ LET id == NextKey(studentApplications) IN
       /\ studentApplications' =
             putObject(studentApplications, Spread(loc[p].application, [id |-> id]))
       /\ Suspend(p, hist, "apply_count",
             Spread(loc[p], [id |-> id,
                             opportunity |-> Incremented(loc[p].opportunity)]))
    /\ UNCHANGED <<nonCareerVars, careerOpportunities, session, token, currentUser,
                   activityLog, now>>

\* await this.putObject('careerOpportunities', opportunity)
applyCount(p) ==
    /\ pc[p] = "apply_count"
    /\ careerOpportunities' = putObject(careerOpportunities, loc[p].opportunity)
    /\ Suspend(p, hist, "apply_log", loc[p])
    /\ UNCHANGED <<nonCareerVars, studentApplications, session, token, currentUser,
                   activityLog, now>>

\* The same put rejected by the store (an I/O fault): the call throws with
\* the application stored and the counter as it was.
applyCountFails(p) ==
    /\ pc[p] = "apply_count"
    /\ Return(p, hist, "StorageError", NoVal)
    /\ UNCHANGED <<nonCareerVars, careerVars, session, token, currentUser, activityLog, now>>

applyLog(p) ==
    /\ pc[p] = "apply_log"
    /\ activityLog' = logActivity(loc[p].currentUser.id, "apply_opportunity")
    /\ Return(p, hist, "ok", Spread(loc[p].application, [id |-> loc[p].id]))
    /\ UNCHANGED <<nonCareerVars, careerVars, session, token, currentUser, now>>

\* Calls one at a time: a call is started only while no call is in progress.
NextCareerSeq ==
    \/ \E p \in Procs, c \in CareerLogins : Quiescent /\ login(p, c.username, c.password)
    \/ \E p \in Procs : loginPut(p)
    \/ \E p \in Procs : loginLog(p)
    \/ \E p \in Procs, d \in OpportunityDatas : Quiescent /\ createCareerOpportunity(p, d)
    \/ \E p \in Procs : createCareerOpportunityPut(p)
    \/ \E p \in Procs : createCareerOpportunityLog(p)
    \/ \E p \in Procs, o \in OpportunityIds : Quiescent /\ applyForOpportunity(p, o)
    \/ \E p \in Procs : applyGet(p)
    \/ \E p \in Procs : applyCheck(p)
    \/ \E p \in Procs : applyPut(p)
    \/ \E p \in Procs : applyCount(p)
    \/ \E p \in Procs : applyLog(p)
    \/ Tick

SpecCareerSeq == Init /\ [][NextCareerSeq]_vars

\* Overlapping calls of one student on opportunities without a deadline, with
\* store faults between the two writes of an apply.
NextCareer ==
    \/ \E p \in Procs, c \in StudentLogin : login(p, c.username, c.password)
    \/ \E p \in Procs : loginPut(p)
    \/ \E p \in Procs : loginLog(p)
    \/ \E p \in Procs, d \in OpenOpportunity : createCareerOpportunity(p, d)
    \/ \E p \in Procs : createCareerOpportunityPut(p)
    \/ \E p \in Procs : createCareerOpportunityLog(p)
    \/ \E p \in Procs, o \in OpportunityIds : applyForOpportunity(p, o)
    \/ \E p \in Procs : applyGet(p)
    \/ \E p \in Procs : applyCheck(p)
    \/ \E p \in Procs : applyPut(p)
    \/ \E p \in Procs : applyCount(p)
    \/ \E p \in Procs : applyCountFails(p)
    \/ \E p \in Procs : applyLog(p)

SpecCareer == Init /\ [][NextCareer]_vars

----------------------------------------------------------------------------
(* Campus alerts: createCampusAlert, getActiveAlerts, markAlertAsRead, and *)
(* the expiry sweep of performBackgroundSync.                               *)

MaxAlerts == 1
MaxViews == 1
DefaultExpiryHours == 168
LogCap == 1000

AlertIds == 1..MaxAlerts
AlertDatas == { [title |-> "t"], [title |-> "t", expiry |-> 0] }
\* An alert created with an expiry that has already elapsed, and one with the
\* default expiry.
ElapsedAlertDatas == { [title |-> "t"], [title |-> "t", expiry |-> 0 - 1] }

\* The store is kept to MaxAlerts records: a call is started only while there
\* is room for the record it will put.
createCampusAlert(p, alertData) ==
    /\ Idle(p)
    /\ Cardinality(DOMAIN campusAlerts)
         + Cardinality({q \in Procs : pc[q] = "alert_put"}) < MaxAlerts
    /\ LET h == HistBegin(hist, p, "createCampusAlert", alertData)
           user == AwaitCurrentUser
       IN  /\ currentUser' = user
           /\ IF user = NoUser
              THEN Return(p, h, "NotAuthenticated", NoVal)
              ELSE Suspend(p, h, "alert_put",
                     [alert |-> Spread(alertData,
                                  [createdAt |-> now, createdBy |-> user.id,
                                   isActive |-> TRUE, views |-> 0,
                                   expiry |-> IF "expiry" \in DOMAIN alertData
                                              THEN alertData.expiry
                                              ELSE now + DefaultExpiryHours])])
    /\ UNCHANGED <<nonAlertVars, campusAlerts, session, token, activityLog, now>>

createCampusAlertPut(p) ==
    /\ pc[p] = "alert_put"
    /\ LET id == NextKey(campusAlerts) IN
       /\ campusAlerts' = putObject(campusAlerts, Spread(loc[p].alert, [id |-> id]))
       /\ Suspend(p, hist, "alert_log", Spread(loc[p], [id |-> id]))
    /\ UNCHANGED <<nonAlertVars, session, token, currentUser, activityLog, now>>

createCampusAlertLog(p) ==
    /\ pc[p] = "alert_log"
    /\ activityLog' = logActivity(loc[p].alert.createdBy, "create_alert")
    /\ Return(p, hist, "ok", Spread(loc[p].alert, [id |-> loc[p].id]))
    /\ UNCHANGED <<nonAlertVars, campusAlerts, session, token, currentUser, now>>

\* if (alert.expiry && new Date(alert.expiry) < now)
Expired(alert, t) == alert.expiry < t

\* The alerts getActiveAlerts keeps: active and not expired.
ShownAlerts ==
    {id \in DOMAIN campusAlerts :
        campusAlerts[id].isActive /\ ~Expired(campusAlerts[id], now)}

\* if (priority) alerts = alerts.filter(alert => alert.priority === priority);
\* "" stands for a call without a priority.
OfPriority(ids, priority) ==
    IF priority = "" THEN ids
    ELSE {id \in ids : /\ "priority" \in DOMAIN campusAlerts[id]
                        /\ campusAlerts[id].priority = priority}

\* priorityOrder[alert.priority] || 0
priorityOrder(alert) ==
    IF "priority" \notin DOMAIN alert THEN 0
    ELSE CASE alert.priority = "high" -> 3
           [] alert.priority = "medium" -> 2
           [] alert.priority = "low" -> 1
           [] OTHER -> 0

\* The comparator of alerts.sort: higher priority first, then newest first;
\* the sort is stable, so alerts it holds equal stay in key order.
SortsBefore(i, j) ==
    LET a == campusAlerts[i]
        b == campusAlerts[j]
    IN  \/ priorityOrder(a) > priorityOrder(b)
        \/ /\ priorityOrder(a) = priorityOrder(b)
           /\ \/ a.createdAt > b.createdAt
              \/ a.createdAt = b.createdAt /\ i <= j

RECURSIVE SortAlerts(_)
SortAlerts(ids) ==
    IF ids = {} THEN <<>>
    ELSE LET f == CHOOSE i \in ids : \A j \in ids : SortsBefore(i, j)
         IN  <<campusAlerts[f]>> \o SortAlerts(ids \ {f})

\* getActiveAlerts(priority): the read of all alerts, the two filters and
\* the sort.
getActiveAlerts(p, priority) ==
    /\ Idle(p)
    /\ Return(p, HistBegin(hist, p, "getActiveAlerts",
                           IF priority = "" THEN NoVal ELSE [priority |-> priority]),
              "ok", [alerts |-> SortAlerts(OfPriority(ShownAlerts, priority))])
    /\ UNCHANGED <<nonAlertVars, campusAlerts, session, token, currentUser,
                   activityLog, now>>

\* The call and the read of the alert; views is raised on the copy that was
\* read and the put is issued.  Views are counted up to MaxViews.
markAlertAsRead(p, alertId) ==
    /\ Idle(p)
    /\ LET h == HistBegin(hist, p, "markAlertAsRead", [alertId |-> alertId])
           alert == getObject(campusAlerts, alertId)
       IN  IF alert = NoVal
           THEN Return(p, h, "NotFoundError", NoVal)
           ELSE /\ alert.views < MaxViews
                /\ Suspend(p, h, "read_put",
                           [alert |-> [alert EXCEPT !.views = @ + 1]])
    /\ UNCHANGED <<nonAlertVars, campusAlerts, session, token, currentUser,
                   activityLog, now>>

markAlertAsReadPut(p) ==
    /\ pc[p] = "read_put"
    /\ campusAlerts' = putObject(campusAlerts, loc[p].alert)
    /\ Return(p, hist, "ok", loc[p].alert)
    /\ UNCHANGED <<nonAlertVars, session, token, currentUser, activityLog, now>>

\* deactivateAlert(alertId): getCurrentUser and the check; the read of the
\* alert is issued.
deactivateAlert(p, alertId) ==
    /\ Idle(p)
    /\ LET h == HistBegin(hist, p, "deactivateAlert", [alertId |-> alertId])
           user == AwaitCurrentUser
       IN  /\ currentUser' = user
           /\ IF user = NoUser
              THEN Return(p, h, "NotAuthenticated", NoVal)
              ELSE Suspend(p, h, "deactivate_get",
                           [alertId |-> alertId, userId |-> user.id])
    /\ UNCHANGED <<nonAlertVars, campusAlerts, session, token, activityLog, now>>

\* The read returned; the copy is marked inactive, with the time and the
\* user, and the put is issued.
deactivateAlertGet(p) ==
    /\ pc[p] = "deactivate_get"
    /\ LET alert == getObject(campusAlerts, loc[p].alertId) IN
       IF alert = NoVal
       THEN Return(p, hist, "NotFoundError", NoVal)
       ELSE Suspend(p, hist, "deactivate_put",
                    Spread(loc[p],
                           [alert |-> Spread(alert, [isActive |-> FALSE,
                                                     deactivatedAt |-> now,
                                                     deactivatedBy |-> loc[p].userId])]))
    /\ UNCHANGED <<nonAlertVars, campusAlerts, session, token, currentUser,
                   activityLog, now>>

\* await this.putObject('campusAlerts', alert)
deactivateAlertPut(p) ==
    /\ pc[p] = "deactivate_put"
    /\ campusAlerts' = putObject(campusAlerts, loc[p].alert)
    /\ Suspend(p, hist, "deactivate_log", loc[p])
    /\ UNCHANGED <<nonAlertVars, session, token, currentUser, activityLog, now>>

deactivateAlertLog(p) ==
    /\ pc[p] = "deactivate_log"
    /\ activityLog' = logActivity(loc[p].userId, "deactivate_alert")
    /\ Return(p, hist, "ok", loc[p].alert)
    /\ UNCHANGED <<nonAlertVars, campusAlerts, session, token, currentUser, now>>

\* A sweep that takes every expired alert, active or not.
ToSweep_expired(alerts, t) == {id \in DOMAIN alerts : Expired(alerts[id], t)}

\* The alerts of a snapshot the sweep flips: expired at the time the pass
\* read the clock, and active.
ToSweep(alerts, t) ==
    {id \in DOMAIN alerts : Expired(alerts[id], t) /\ alerts[id].isActive}

\* After the put of one alert the loop runs on to the next alert to flip, or
\* past the last alert to the read of the activity log.
SweepNext(p, alerts, t, todo) ==
    Suspend(p, hist, IF todo = {} THEN "sync_log" ELSE "sync_put",
            [alerts |-> alerts, now |-> t, todo |-> todo])

\* performBackgroundSync: the call and the read of all alerts; the put of
\* the first alert to flip is issued.
performBackgroundSync(p) ==
    /\ Idle(p)
    /\ LET h == HistBegin(hist, p, "performBackgroundSync", [at |-> now])
           todo == ToSweep(campusAlerts, now)
       IN  Suspend(p, h, IF todo = {} THEN "sync_log" ELSE "sync_put",
                   [alerts |-> campusAlerts, now |-> now, todo |-> todo])
    /\ UNCHANGED <<nonAlertVars, campusAlerts, session, token, currentUser,
                   activityLog, now>>

\* alert.isActive = false; await this.putObject('campusAlerts', alert), on
\* the copy of the snapshot, in key order.
syncPut(p) ==
    /\ pc[p] = "sync_put"
    /\ LET id == CHOOSE i \in loc[p].todo : \A j \in loc[p].todo : i <= j IN
       /\ campusAlerts' =
             putObject(campusAlerts, [loc[p].alerts[id] EXCEPT !.isActive = FALSE])
       /\ SweepNext(p, loc[p].alerts, loc[p].now, loc[p].todo \ {id})
    /\ UNCHANGED <<nonAlertVars, session, token, currentUser, activityLog, now>>

\* activities.sort((a, b) => new Date(b.timestamp) - new Date(a.timestamp)),
\* newest first, and const toKeep = activities.slice(0, 1000).
toKeep(log) ==
    SubSeq(SortSeq(log, LAMBDA a, b : a.timestamp > b.timestamp), 1, LogCap)

\* putObject('activityLog', activity) of an entry that carries its key.
putEntry(log, entry) ==
    SelectSeq(log, LAMBDA e : e.id < entry.id) \o <<entry>>
      \o SelectSeq(log, LAMBDA e : e.id > entry.id)

\* The read of the activity log returned.  A log of more than 1000 entries is
\* sorted and cut, and the clear is issued; otherwise the put of 'last_sync'
\* is issued.
syncLog(p) ==
    /\ pc[p] = "sync_log"
    /\ IF Len(activityLog) > LogCap
       THEN Suspend(p, hist, "sync_clear",
                    Spread(loc[p], [toKeep |-> toKeep(activityLog), trimmed |-> TRUE]))
       ELSE Suspend(p, hist, "sync_setting", loc[p])
    /\ UNCHANGED <<nonAlertVars, campusAlerts, session, token, currentUser,
                   activityLog, now>>

\* await this.executeTransaction('activityLog', 'readwrite', store.clear()),
\* and the first put of the loop is issued.
syncClear(p) ==
    /\ pc[p] = "sync_clear"
    /\ activityLog' = <<>>
    /\ Suspend(p, hist, "sync_keep", loc[p])
    /\ UNCHANGED <<nonAlertVars, campusAlerts, session, token, currentUser, now>>

\* await this.putObject('activityLog', activity) for the next entry of
\* toKeep; after the last one the put of 'last_sync' is issued.
syncKeep(p) ==
    /\ pc[p] = "sync_keep"
    /\ activityLog' = putEntry(activityLog, Head(loc[p].toKeep))
    /\ Suspend(p, hist, IF Len(loc[p].toKeep) = 1 THEN "sync_setting" ELSE "sync_keep",
               [loc[p] EXCEPT !.toKeep = Tail(@)])
    /\ UNCHANGED <<nonAlertVars, campusAlerts, session, token, currentUser, now>>

\* await this.setSystemSetting('last_sync', ...): the pass is complete.
syncSetting(p) ==
    /\ pc[p] = "sync_setting"
    /\ Return(p, hist, "ok", NoVal)
    /\ UNCHANGED <<nonAlertVars, campusAlerts, session, token, currentUser,
                   activityLog, now>>

NextAlerts ==
    \/ \E p \in Procs, c \in StudentLogin : login(p, c.username, c.password)
    \/ \E p \in Procs : loginPut(p)
    \/ \E p \in Procs : loginLog(p)
    \/ \E p \in Procs, d \in AlertDatas : createCampusAlert(p, d)
    \/ \E p \in Procs : createCampusAlertPut(p)
    \/ \E p \in Procs : createCampusAlertLog(p)
    \/ \E p \in Procs : getActiveAlerts(p, "")
    \/ \E p \in Procs, a \in AlertIds : markAlertAsRead(p, a)
    \/ \E p \in Procs : markAlertAsReadPut(p)
    \/ \E p \in Procs : performBackgroundSync(p)
    \/ \E p \in Procs : syncPut(p)
    \/ \E p \in Procs : syncLog(p)
    \/ \E p \in Procs : syncSetting(p)
    \/ Tick

SpecAlerts == Init /\ [][NextAlerts]_vars

\* The sweep next to the creation and the listing of alerts, with the clock
\* standing still, on alerts that are created expired or with the default
\* expiry.  The view counter of markAlertAsRead is left to SpecAlerts.
NextSweep ==
    \/ \E p \in Procs, c \in StudentLogin : login(p, c.username, c.password)
    \/ \E p \in Procs : loginPut(p)
    \/ \E p \in Procs : loginLog(p)
    \/ \E p \in Procs, d \in ElapsedAlertDatas : createCampusAlert(p, d)
    \/ \E p \in Procs : createCampusAlertPut(p)
    \/ \E p \in Procs : createCampusAlertLog(p)
    \/ \E p \in Procs : getActiveAlerts(p, "")
    \/ \E p \in Procs : performBackgroundSync(p)
    \/ \E p \in Procs : syncPut(p)
    \/ \E p \in Procs : syncLog(p)
    \/ \E p \in Procs : syncSetting(p)

SpecSweep == Init /\ [][NextSweep]_vars

-----------------------------------------------------------------------------
(* Attendance: markAttendance, getAttendanceStats, updateAttendance,        *)
(* deleteAttendance.  A record keeps the fields the workflows read here:    *)
(* id, studentId, status, markedBy and updatedBy; date, subject, time,      *)
(* semester, branch and remarks are stored and never read back by them.     *)

MaxAttendance == 2

AttendanceIds == 1..MaxAttendance
AttendanceStudents == {"student_001", "user_1"}
Statuses == {"present", "absent", "late", "excused"}
AttendanceDatas ==
    { [studentId |-> "student_001"], [studentId |-> "student_001", status |-> "absent"] }
AttendanceUpdates == { [status |-> "late"] }

\* markAttendance: getCurrentUser, the record, and the put is issued.
markAttendance(p, attendanceData) ==
    /\ Idle(p)
    /\ attendanceSeq + Cardinality({q \in Procs : pc[q] = "att_put"}) < MaxAttendance
    /\ LET h == HistBegin(hist, p, "markAttendance", attendanceData)
           user == AwaitCurrentUser
       IN  /\ currentUser' = user
           /\ IF user = NoUser
              THEN Return(p, h, "NotAuthenticated", NoVal)
              ELSE Suspend(p, h, "att_put",
                     [attendance |->
                        [studentId |-> attendanceData.studentId,
                         status |-> IF "status" \in DOMAIN attendanceData
                                    THEN attendanceData.status ELSE "present",
                         markedBy |-> user.id]])
    /\ UNCHANGED <<nonAttendanceVars, attendanceVars, session, token, activityLog, now>>

\* await this.putObject('attendance', attendance): the store generates the key.
markAttendancePut(p) ==
    /\ pc[p] = "att_put"
    /\ attendanceSeq' = attendanceSeq + 1
    /\ attendance' = putObject(attendance,
                               Spread(loc[p].attendance, [id |-> attendanceSeq + 1]))
    /\ Suspend(p, hist, "att_log", loc[p])
    /\ UNCHANGED <<nonAttendanceVars, session, token, currentUser, activityLog, now>>

\* A log step that throws when the write of the entry fails.
markAttendanceLog_throws(p) ==
    /\ pc[p] = "att_log"
    /\ activityLog' = logActivity(loc[p].attendance.markedBy, "mark_attendance")
    /\ Return(p, hist, IF activityLog' = activityLog THEN "Error" ELSE "ok",
              loc[p].attendance)
    /\ UNCHANGED <<nonAttendanceVars, attendanceVars, session, token, currentUser, now>>

markAttendanceLog(p) ==
    /\ pc[p] = "att_log"
    /\ activityLog' = logActivity(loc[p].attendance.markedBy, "mark_attendance")
    /\ Return(p, hist, "ok", loc[p].attendance)
    /\ UNCHANGED <<nonAttendanceVars, attendanceVars, session, token, currentUser, now>>

\* getAllObjects('attendance', 'studentId', studentId)
getAttendanceForStudent(studentId) ==
    {id \in DOMAIN attendance : attendance[id].studentId = studentId}

CountStatus(ids, status) == Cardinality({id \in ids : attendance[id].status = status})

\* Math.round((present / total) * 100)
Percentage(present, total) ==
    IF present = 0 THEN 0 ELSE MathRound(Times100(Divide(present, total)))

\* The value getAttendanceStats returns.
AttendanceStats(studentId) ==
    LET records == getAttendanceForStudent(studentId)
        total == Cardinality(records)
        present == CountStatus(records, "present")
    IN  IF total = 0
        THEN [total |-> 0, present |-> 0, absent |-> 0, late |-> 0, percentage |-> 0]
        ELSE [total |-> total,
              present |-> present,
              absent |-> CountStatus(records, "absent"),
              late |-> CountStatus(records, "late"),
              percentage |-> Percentage(present, total)]

getAttendanceStats(p, studentId) ==
    /\ Idle(p)
    /\ Return(p, HistBegin(hist, p, "getAttendanceStats", [studentId |-> studentId]),
              "ok", AttendanceStats(studentId))
    /\ UNCHANGED <<nonAttendanceVars, attendanceVars, session, token, currentUser,
                   activityLog, now>>

\* updateAttendance: getCurrentUser; the read of the record is issued.
updateAttendance(p, attendanceId, updates) ==
    /\ Idle(p)
    /\ LET h == HistBegin(hist, p, "updateAttendance",
                          [attendanceId |-> attendanceId, updates |-> updates])
           user == AwaitCurrentUser
       IN  /\ currentUser' = user
           /\ IF user = NoUser
              THEN Return(p, h, "NotAuthenticated", NoVal)
              ELSE Suspend(p, h, "attupd_get",
                     [attendanceId |-> attendanceId, updates |-> updates,
                      userId |-> user.id])
    /\ UNCHANGED <<nonAttendanceVars, attendanceVars, session, token, activityLog, now>>

\* The read returned: 'Attendance record not found', or the merged record
\* and the put is issued.
updateAttendanceGet(p) ==
    /\ pc[p] = "attupd_get"
    /\ LET record == getObject(attendance, loc[p].attendanceId) IN
       IF record = NoVal
       THEN Return(p, hist, "NotFoundError", NoVal)
       ELSE Suspend(p, hist, "attupd_put",
              [userId |-> loc[p].userId,
               attendance |-> Spread(Spread(record, loc[p].updates),
                                     [updatedBy |-> loc[p].userId])])
    /\ UNCHANGED <<nonAttendanceVars, attendanceVars, session, token, currentUser,
                   activityLog, now>>

updateAttendancePut(p) ==
    /\ pc[p] = "attupd_put"
    /\ attendance' = putObject(attendance, loc[p].attendance)
    /\ Suspend(p, hist, "attupd_log", loc[p])
    /\ UNCHANGED <<nonAttendanceVars, attendanceSeq, session, token, currentUser,
                   activityLog, now>>

updateAttendanceLog(p) ==
    /\ pc[p] = "attupd_log"
    /\ activityLog' = logActivity(loc[p].userId, "update_attendance")
    /\ Return(p, hist, "ok", loc[p].attendance)
    /\ UNCHANGED <<nonAttendanceVars, attendanceVars, session, token, currentUser, now>>

\* store.delete(key): the store without the key; an absent key is no error.
deleteObject(store, key) == [id \in DOMAIN store \ {key} |-> store[id]]

\* deleteAttendance: getCurrentUser; the delete is issued.
deleteAttendance(p, attendanceId) ==
    /\ Idle(p)
    /\ LET h == HistBegin(hist, p, "deleteAttendance", [attendanceId |-> attendanceId])
           user == AwaitCurrentUser
       IN  /\ currentUser' = user
           /\ IF user = NoUser
              THEN Return(p, h, "NotAuthenticated", NoVal)
              ELSE Suspend(p, h, "attdel_delete",
                     [attendanceId |-> attendanceId, userId |-> user.id])
    /\ UNCHANGED <<nonAttendanceVars, attendanceVars, session, token, activityLog, now>>

deleteAttendanceDelete(p) ==
    /\ pc[p] = "attdel_delete"
    /\ attendance' = deleteObject(attendance, loc[p].attendanceId)
    /\ Suspend(p, hist, "attdel_log", loc[p])
    /\ UNCHANGED <<nonAttendanceVars, attendanceSeq, session, token, currentUser,
                   activityLog, now>>

deleteAttendanceLog(p) ==
    /\ pc[p] = "attdel_log"
    /\ activityLog' = logActivity(loc[p].userId, "delete_attendance")
    /\ Return(p, hist, "ok", TRUE)
    /\ UNCHANGED <<nonAttendanceVars, attendanceVars, session, token, currentUser, now>>

NextAttendance ==
    \/ \E p \in Procs, c \in StudentLogin : login(p, c.username, c.password)
    \/ \E p \in Procs : loginPut(p)
    \/ \E p \in Procs : loginLog(p)
    \/ \E p \in Procs, d \in AttendanceDatas : markAttendance(p, d)
    \/ \E p \in Procs : markAttendancePut(p)
    \/ \E p \in Procs : markAttendanceLog(p)
    \/ \E p \in Procs, a \in AttendanceIds, u \in AttendanceUpdates : updateAttendance(p, a, u)
    \/ \E p \in Procs : updateAttendanceGet(p)
    \/ \E p \in Procs : updateAttendancePut(p)
    \/ \E p \in Procs : updateAttendanceLog(p)
    \/ \E p \in Procs, a \in AttendanceIds : deleteAttendance(p, a)
    \/ \E p \in Procs : deleteAttendanceDelete(p)
    \/ \E p \in Procs : deleteAttendanceLog(p)

SpecAttendance == Init /\ [][NextAttendance]_vars

\* The statistics over every attendance store of up to MaxRecords records,
\* as markAttendance leaves them: keys 1..n, any student, any status; and
\* over the stores of up to MaxClasses records of one student, the present
\* ones first and the others absent.
MaxRecords == 4
MaxClasses == 40

AttendanceRecords ==
    [studentId : AttendanceStudents, status : Statuses, markedBy : {"student_001"}]

WithIds(f) == [i \in DOMAIN f |-> Spread(f[i], [id |-> i])]

ClassRecord(status) ==
    [studentId |-> "student_001", status |-> status, markedBy |-> "student_001"]

InitStats ==
    /\ \/ \E n \in 0..MaxRecords : \E f \in [1..n -> AttendanceRecords] :
            /\ attendance = WithIds(f)
            /\ attendanceSeq = n
       \/ \E n \in (MaxRecords + 1)..MaxClasses : \E present \in 0..n :
            /\ attendance = WithIds([i \in 1..n |->
                               ClassRecord(IF i <= present THEN "present" ELSE "absent")])
            /\ attendanceSeq = n
    /\ users = seedInitialData
    /\ session = NoSession
    /\ token = NoToken
    /\ currentUser = NoUser
    /\ activityLog = <<>>
    /\ logSeq = 0
    /\ messMenu = <<>>
    /\ mealBookings = <<>>
    /\ careerOpportunities = <<>>
    /\ studentApplications = <<>>
    /\ campusAlerts = <<>>
    /\ results = <<>>
    /\ snapshot = NoVal
    /\ backups = <<>>
    /\ idSeq = 0
    /\ now = 0
    /\ pc = [p \in Procs |-> "idle"]
    /\ loc = [p \in Procs |-> NoLoc]
    /\ hist = <<>>

NextStats == \E p \in Procs, st \in AttendanceStudents : getAttendanceStats(p, st)

SpecStats == InitStats /\ [][NextStats]_vars

-----------------------------------------------------------------------------
(* Results: saveStudentResults, getStudentResults.  Grade points are kept   *)
(* in halves (A- is 8.5 points, 17 halves), sums of them are exact in       *)
(* doubles; a number printed by toFixed is kept as the integer its digits   *)
(* spell (toFixed(2) of 8.5 is "8.50", kept as 850).                        *)

ResultStudents == {"student_001"}
Semesters == {1, 2}
ResultsId(studentId, semester) == <<studentId, semester>>

Subject(grade, credits) == [grade |-> grade, credits |-> credits]

ResultsDatas ==
    { [subjects |-> <<Subject("A-", 1)>>],
      [subjects |-> <<Subject("F", 19)>>],
      [subjects |-> <<Subject("a", 3), Subject("X", 1)>>],
      [subjects |-> <<[grade |-> "B+"], Subject("C", 0)>>],
      [sgpa |-> 900] }

\* grade?.toUpperCase()
toUpperCase(grade) == IF grade = "a" THEN "A" ELSE grade

\* gradeMap[grade?.toUpperCase()] || 0, in halves of a point.
getGradePoints(grade) ==
    LET g == toUpperCase(grade) IN
    IF g = "A+" THEN 20 ELSE IF g = "A" THEN 18 ELSE IF g = "A-" THEN 17
    ELSE IF g = "B+" THEN 16 ELSE IF g = "B" THEN 14 ELSE IF g = "B-" THEN 12
    ELSE IF g = "C+" THEN 10 ELSE IF g = "C" THEN 8 ELSE IF g = "C-" THEN 6
    ELSE IF g = "D+" THEN 4 ELSE IF g = "D" THEN 2 ELSE 0

\* subject.credits || 1
creditsOf(subject) ==
    IF "credits" \in DOMAIN subject /\ subject.credits # 0 THEN subject.credits ELSE 1

\* totalGradePoints (in halves) and totalCredits over a list of subjects.
RECURSIVE totalGradePoints(_)
totalGradePoints(subjects) ==
    IF subjects = <<>> THEN 0
    ELSE getGradePoints(Head(subjects).grade) * creditsOf(Head(subjects))
           + totalGradePoints(Tail(subjects))

RECURSIVE totalCredits(_)
totalCredits(subjects) ==
    IF subjects = <<>> THEN 0
    ELSE creditsOf(Head(subjects)) + totalCredits(Tail(subjects))

\* totalCredits > 0 ? (totalGradePoints / totalCredits).toFixed(2) : 0
GradeAverage(halves, credits) ==
    IF credits = 0 \/ halves = 0 THEN 0 ELSE toFixed(Quotient(halves, 2 * credits), 100)

\* saveStudentResults(studentId, semester, resultsData): getCurrentUser, the
\* record with the SGPA computed when none is given, and the put issued.
saveStudentResults(p, studentId, semester, resultsData) ==
    /\ Idle(p)
    /\ LET h == HistBegin(hist, p, "saveStudentResults",
                          [studentId |-> studentId, semester |-> semester,
                           resultsData |-> resultsData])
           user == AwaitCurrentUser
           given == "subjects" \in DOMAIN resultsData
           subjects == IF given THEN resultsData.subjects ELSE <<>>
           computed == "sgpa" \notin DOMAIN resultsData /\ given
       IN  /\ currentUser' = user
           /\ IF user = NoUser
              THEN Return(p, h, "NotAuthenticated", NoVal)
              ELSE Suspend(p, h, "results_put",
                     [results |->
                        [id |-> ResultsId(studentId, semester),
                         studentId |-> studentId,
                         semester |-> semester,
                         subjects |-> subjects,
                         sgpa |-> IF computed
                                  THEN GradeAverage(totalGradePoints(subjects),
                                                    totalCredits(subjects))
                                  ELSE IF "sgpa" \in DOMAIN resultsData
                                  THEN resultsData.sgpa ELSE 0,
                         creditsEarned |-> IF computed THEN totalCredits(subjects) ELSE 0,
                         publishedBy |-> user.id]])
    /\ UNCHANGED <<nonUserVars, users, idSeq, session, token, activityLog, now>>

\* await this.putObject('results', results)
saveStudentResultsPut(p) ==
    /\ pc[p] = "results_put"
    /\ results' = putObject(results, loc[p].results)
    /\ Suspend(p, hist, "results_log", loc[p])
    /\ UNCHANGED <<users, idSeq, messVars, careerVars, campusAlerts, attendanceVars,
                   backupVars, session, token, currentUser, activityLog, logSeq, now>>

saveStudentResultsLog(p) ==
    /\ pc[p] = "results_log"
    /\ activityLog' = logActivity(loc[p].results.publishedBy, "save_results")
    /\ Return(p, hist, "ok", loc[p].results)
    /\ UNCHANGED <<nonUserVars, users, idSeq, session, token, currentUser, now>>

\* getAllObjects('results', 'studentId', studentId), sorted by semester.
RECURSIVE SortBySemester(_)
SortBySemester(ids) ==
    IF ids = {} THEN <<>>
    ELSE LET first == CHOOSE id \in ids :
                        \A o \in ids : results[id].semester <= results[o].semester
         IN  <<results[first]>> \o SortBySemester(ids \ {first})

\* The subjects of all records of a list, one after the other.
RECURSIVE AllSubjects(_)
AllSubjects(list) ==
    IF list = <<>> THEN <<>> ELSE Head(list).subjects \o AllSubjects(Tail(list))

\* getStudentResults(studentId, semester): with a semester the record stored
\* under the key (0 stands for null); without one all records of the student
\* with the CGPA computed over their subjects.
getStudentResults(p, studentId, semester) ==
    /\ Idle(p)
    /\ LET h == HistBegin(hist, p, "getStudentResults",
                          [studentId |-> studentId, semester |-> semester])
           allResults == SortBySemester({id \in DOMAIN results :
                                           results[id].studentId = studentId})
           subjects == AllSubjects(allResults)
       IN  IF semester # 0
           THEN Return(p, h, "ok", getObject(results, ResultsId(studentId, semester)))
           ELSE Return(p, h, "ok",
                       [results |-> allResults,
                        cgpa |-> GradeAverage(totalGradePoints(subjects),
                                              totalCredits(subjects)),
                        totalCredits |-> totalCredits(subjects)])
    /\ UNCHANGED <<nonUserVars, userVars, activityLog, now>>

\* The results workflows, by the admin, calls one at a time.
NextResults ==
    \/ \E p \in Procs, c \in AdminLogin : Quiescent /\ login(p, c.username, c.password)
    \/ \E p \in Procs : loginPut(p)
    \/ \E p \in Procs : loginLog(p)
    \/ \E p \in Procs, st \in ResultStudents, sem \in Semesters, d \in ResultsDatas :
         Quiescent /\ saveStudentResults(p, st, sem, d)
    \/ \E p \in Procs : saveStudentResultsPut(p)
    \/ \E p \in Procs : saveStudentResultsLog(p)
    \/ \E p \in Procs, st \in ResultStudents, sem \in {0} \cup Semesters :
         Quiescent /\ getStudentResults(p, st, sem)

SpecResults == Init /\ [][NextResults]_vars

-----------------------------------------------------------------------------
(* Export, import, backup and restore: exportDataAsJSON, importData,        *)
(* createBackup, restoreBackup, clearDatabase.  The stores                  *)
(* 'emergencyContacts', 'campusLocations', 'systemSettings' and             *)
(* 'attendanceReports' are not part of the model.                           *)

\* const { password, ...userWithoutPassword } = user, for each user
SanitizedUsers == [id \in DOMAIN users |-> Sanitize(users[id])]

\* The value exportDataAsJSON returns: the records of every store and their
\* numbers.
ExportData ==
    [recordCounts |->
        [users |-> Cardinality(DOMAIN users),
         attendance |-> Cardinality(DOMAIN attendance),
         messMenu |-> Cardinality(DOMAIN messMenu),
         careerOpportunities |-> Cardinality(DOMAIN careerOpportunities),
         studentApplications |-> Cardinality(DOMAIN studentApplications),
         results |-> Cardinality(DOMAIN results),
         campusAlerts |-> Cardinality(DOMAIN campusAlerts),
         activityLog |-> Len(activityLog),
         mealBookings |-> Cardinality(DOMAIN mealBookings)],
     data |->
        [users |-> SanitizedUsers,
         attendance |-> attendance,
         messMenu |-> messMenu,
         careerOpportunities |-> careerOpportunities,
         studentApplications |-> studentApplications,
         results |-> results,
         campusAlerts |-> campusAlerts,
         activityLog |-> activityLog,
         mealBookings |-> mealBookings]]

\* exportDataAsJSON(): the reads of all stores; the caller keeps the result.
exportDataAsJSON(p) ==
    /\ Idle(p)
    /\ snapshot' = ExportData
    /\ Return(p, HistBegin(hist, p, "exportDataAsJSON", NoVal), "ok", NoVal)
    /\ UNCHANGED <<results, logSeq, users, idSeq, messVars, careerVars, campusAlerts, attendanceVars,
                   backups, session, token, currentUser, activityLog, now>>

\* clearDatabase(): store.clear() on every store, with no other call in
\* progress.  The key generators are not reset.
clearDatabase(p) ==
    /\ Idle(p)
    /\ Quiescent
    /\ users' = <<>>
    /\ attendance' = <<>>
    /\ messMenu' = <<>>
    /\ careerOpportunities' = <<>>
    /\ studentApplications' = <<>>
    /\ campusAlerts' = <<>>
    /\ activityLog' = <<>>
    /\ mealBookings' = <<>>
    /\ results' = <<>>
    /\ Return(p, HistBegin(hist, p, "clearDatabase", NoVal), "ok", NoVal)
    /\ UNCHANGED <<logSeq, idSeq, attendanceSeq, backupVars, session, token, currentUser, now>>

\* An import that asks for a user only.
AdminRequired_absent(user) == user = NoUser

\* if (!currentUser || currentUser.role !== 'admin')
AdminRequired(user) == user = NoUser \/ user.role # "admin"

\* The collections importData writes.
Imported ==
    {"users", "attendance", "messMenu", "careerOpportunities", "studentApplications",
     "results", "campusAlerts"}

\* The largest key of a store, 0 for the empty store.
MaxKey(store) ==
    IF DOMAIN store = {} THEN 0
    ELSE CHOOSE k \in DOMAIN store : \A j \in DOMAIN store : j <= k

\* A put that ignores the key a record carries and stores it under a key the
\* store generates.
putEach_generated(store, records) ==
    LET n == MaxKey(store) IN
    [k \in DOMAIN store \cup {n + id : id \in DOMAIN records} |->
        IF k \in DOMAIN store THEN store[k] ELSE [records[k - n] EXCEPT !.id = k]]

\* putObject(storeName, record) for each record of a collection: every
\* record carries its key, so it replaces the record stored under that key
\* or is added under it.
putEach(store, records) ==
    [id \in DOMAIN store \cup DOMAIN records |->
        IF id \in DOMAIN records THEN records[id] ELSE store[id]]

\* The puts of the users in turn; a put the unique indexes reject leaves the
\* store as it is.
RECURSIVE putUsers(_, _, _)
putUsers(store, records, ids) ==
    IF ids = {} THEN store
    ELSE LET id == CHOOSE i \in ids : TRUE
             next == IF putUsersRejected(store, records[id]) THEN store
                     ELSE putObject(store, records[id])
         IN  putUsers(next, records, ids \ {id})

\* The stores importData writes to.
ImportTarget ==
    [users |-> users, attendance |-> attendance, messMenu |-> messMenu,
     careerOpportunities |-> careerOpportunities,
     studentApplications |-> studentApplications, results |-> results,
     campusAlerts |-> campusAlerts]

\* The stores in target after the puts of the collections in done have
\* completed.
ImportedInto(target, data, done) ==
    [name \in Imported |->
        IF name \notin done THEN target[name]
        ELSE IF name = "users"
        THEN putUsers(target.users, data.users, DOMAIN data.users)
        ELSE putEach(target[name], data[name])]

ImportedStores(data, done) == ImportedInto(ImportTarget, data, done)

\* The stores take the values the puts left; a key put into 'attendance'
\* moves its key generator up to it.
Written(after) ==
    /\ users' = after.users
    /\ attendance' = after.attendance
    /\ attendanceSeq' = IF MaxKey(after.attendance) > attendanceSeq
                        THEN MaxKey(after.attendance) ELSE attendanceSeq
    /\ messMenu' = after.messMenu
    /\ careerOpportunities' = after.careerOpportunities
    /\ studentApplications' = after.studentApplications
    /\ results' = after.results
    /\ campusAlerts' = after.campusAlerts

\* importData(jsonData): getCurrentUser and the admin check; one put per
\* record of the imported collections is issued.
importData(p, data) ==
    /\ Idle(p)
    /\ LET h == HistBegin(hist, p, "importData", NoVal)
           user == AwaitCurrentUser
       IN  /\ currentUser' = user
           /\ IF AdminRequired(user)
              THEN Return(p, h, "AdminRequired", NoVal)
              ELSE Suspend(p, h, "import_puts",
                           [data |-> data.data, userId |-> user.id, restore |-> FALSE])
    /\ UNCHANGED <<results, logSeq, users, idSeq, messVars, careerVars, campusAlerts, attendanceVars,
                   backupVars, session, token, activityLog, now>>

\* await Promise.all(importPromises): every put has completed; a user the
\* unique indexes reject makes the call throw.
importPuts(p) ==
    /\ pc[p] = "import_puts"
    /\ LET after == ImportedStores(loc[p].data, Imported) IN
       /\ Written(after)
       /\ IF \E id \in DOMAIN loc[p].data.users : id \notin DOMAIN after.users
          THEN Return(p, hist, "ConstraintError", NoVal)
          ELSE Suspend(p, hist, "import_log", loc[p])
    /\ UNCHANGED <<logSeq, idSeq, mealBookings, backupVars, session, token, currentUser,
                   activityLog, now>>

\* await Promise.all(importPromises) rejects: the puts of some collections
\* have completed, a put of another failed (request.onerror), and the call
\* throws.
importPutsFail(p) ==
    /\ pc[p] = "import_puts"
    /\ \E failed \in Imported, done \in SUBSET Imported :
         /\ loc[p].data[failed] # <<>>
         /\ failed \notin done
         /\ Written(ImportedStores(loc[p].data, done))
    /\ Return(p, hist, "Error", NoVal)
    /\ UNCHANGED <<logSeq, idSeq, mealBookings, backupVars, session, token, currentUser,
                   activityLog, now>>

\* logActivity(currentUser.id, 'data_import'); the result is returned, to
\* restoreBackup when it made the call.
importLog(p) ==
    /\ pc[p] = "import_log"
    /\ activityLog' = logActivity(loc[p].userId, "data_import")
    /\ IF loc[p].restore
       THEN Suspend(p, hist, "restore_log", loc[p])
       ELSE Return(p, hist, "ok", NoVal)
    /\ UNCHANGED <<results, logSeq, users, idSeq, messVars, careerVars, campusAlerts, attendanceVars,
                   backupVars, session, token, currentUser, now>>

\* `nerist_backup_${new Date().toISOString()...}`
BackupKey(t) == <<"nerist_backup", t>>
BackupKeys == { BackupKey(0), BackupKey(0 - 1) }

\* createBackup(): the export, localStorage.setItem(backupKey, ...), and the
\* put of 'last_backup' is issued.
createBackup(p) ==
    /\ Idle(p)
    /\ backups' = [k \in DOMAIN backups \cup {BackupKey(now)} |->
                     IF k = BackupKey(now) THEN ExportData ELSE backups[k]]
    /\ Suspend(p, HistBegin(hist, p, "createBackup", NoVal), "backup_setting", NoLoc)
    /\ UNCHANGED <<results, logSeq, users, idSeq, messVars, careerVars, campusAlerts, attendanceVars,
                   snapshot, session, token, currentUser, activityLog, now>>

\* setSystemSetting returned; getCurrentUser, and the backup is logged for a
\* user.
createBackupSetting(p) ==
    /\ pc[p] = "backup_setting"
    /\ LET user == AwaitCurrentUser IN
       /\ currentUser' = user
       /\ IF user = NoUser
          THEN Return(p, hist, "ok", NoVal)
          ELSE Suspend(p, hist, "backup_log", [userId |-> user.id])
    /\ UNCHANGED <<results, logSeq, users, idSeq, messVars, careerVars, campusAlerts, attendanceVars,
                   backupVars, session, token, activityLog, now>>

createBackupLog(p) ==
    /\ pc[p] = "backup_log"
    /\ activityLog' = logActivity(loc[p].userId, "create_backup")
    /\ Return(p, hist, "ok", NoVal)
    /\ UNCHANGED <<results, logSeq, users, idSeq, messVars, careerVars, campusAlerts, attendanceVars,
                   backupVars, session, token, currentUser, now>>

\* restoreBackup(backupKey): getCurrentUser and the admin check,
\* localStorage.getItem(backupKey), and importData(backupData) up to its
\* puts; importData finds the user restoreBackup found.
restoreBackup(p, backupKey) ==
    /\ Idle(p)
    /\ LET h == HistBegin(hist, p, "restoreBackup", [backupKey |-> backupKey])
           user == AwaitCurrentUser
       IN  /\ currentUser' = user
           /\ IF AdminRequired(user)
              THEN Return(p, h, "AdminRequired", NoVal)
              ELSE IF backupKey \notin DOMAIN backups
              THEN Return(p, h, "NotFoundError", NoVal)
              ELSE Suspend(p, h, "import_puts",
                           [data |-> backups[backupKey].data, userId |-> user.id,
                            restore |-> TRUE])
    /\ UNCHANGED <<results, logSeq, users, idSeq, messVars, careerVars, campusAlerts, attendanceVars,
                   backupVars, session, token, activityLog, now>>

\* logActivity(currentUser.id, 'restore_backup'); return result
restoreBackupLog(p) ==
    /\ pc[p] = "restore_log"
    /\ activityLog' = logActivity(loc[p].userId, "restore_backup")
    /\ Return(p, hist, "ok", NoVal)
    /\ UNCHANGED <<results, logSeq, users, idSeq, messVars, careerVars, campusAlerts, attendanceVars,
                   backupVars, session, token, currentUser, now>>

ImportLogins == StudentLogin \cup AdminLogin
ImportAttendanceDatas == { [studentId |-> "student_001"] }

\* Export and import, calls one at a time, on the data the admin's login, a
\* menu, a booking and the marking of attendance leave.
NextImport ==
    \/ \E p \in Procs, c \in AdminLogin : Quiescent /\ login(p, c.username, c.password)
    \/ \E p \in Procs : loginPut(p)
    \/ \E p \in Procs : loginLog(p)
    \/ \E p \in Procs, d \in Dates, m \in ImportMealDatas : Quiescent /\ saveMessMenu(p, d, m)
    \/ \E p \in Procs : saveMessMenuPut(p)
    \/ \E p \in Procs : saveMessMenuLog(p)
    \/ \E p \in Procs, d \in Dates, m \in MealTypes :
         Quiescent /\ bookMeal(p, d, m, "student_001")
    \/ \E p \in Procs : bookMealPut(p)
    \/ \E p \in Procs : bookMealRecord(p)
    \/ \E p \in Procs : bookMealLog(p)
    \/ \E p \in Procs, d \in ImportAttendanceDatas : Quiescent /\ markAttendance(p, d)
    \/ \E p \in Procs : markAttendancePut(p)
    \/ \E p \in Procs : markAttendanceLog(p)
    \/ \E p \in Procs : Quiescent /\ exportDataAsJSON(p)
    \/ \E p \in Procs : clearDatabase(p)
    \/ \E p \in Procs : Quiescent /\ snapshot # NoVal /\ importData(p, snapshot)
    \/ \E p \in Procs : importPuts(p)
    \/ \E p \in Procs : importPutsFail(p)
    \/ \E p \in Procs : importLog(p)

SpecImport == Init /\ [][NextImport]_vars

\* Import after import, calls one at a time, on the users and the attendance
\* records.
NextReimport ==
    \/ \E p \in Procs, c \in AdminLogin : Quiescent /\ login(p, c.username, c.password)
    \/ \E p \in Procs : loginPut(p)
    \/ \E p \in Procs : loginLog(p)
    \/ \E p \in Procs, d \in ImportAttendanceDatas : Quiescent /\ markAttendance(p, d)
    \/ \E p \in Procs : markAttendancePut(p)
    \/ \E p \in Procs : markAttendanceLog(p)
    \/ \E p \in Procs : Quiescent /\ exportDataAsJSON(p)
    \/ \E p \in Procs : clearDatabase(p)
    \/ \E p \in Procs : Quiescent /\ snapshot # NoVal /\ importData(p, snapshot)
    \/ \E p \in Procs : importPuts(p)
    \/ \E p \in Procs : importPutsFail(p)
    \/ \E p \in Procs : importLog(p)

SpecReimport == Init /\ [][NextReimport]_vars

\* Import and restore, calls one at a time, by the admin, by a student and
\* by nobody, with the backups createBackup leaves.
NextRestore ==
    \/ \E p \in Procs, c \in ImportLogins : Quiescent /\ login(p, c.username, c.password)
    \/ \E p \in Procs : loginPut(p)
    \/ \E p \in Procs : loginLog(p)
    \/ \E p \in Procs : Quiescent /\ exportDataAsJSON(p)
    \/ \E p \in Procs : Quiescent /\ snapshot # NoVal /\ importData(p, snapshot)
    \/ \E p \in Procs : importPuts(p)
    \/ \E p \in Procs : importPutsFail(p)
    \/ \E p \in Procs : importLog(p)
    \/ \E p \in Procs : Quiescent /\ createBackup(p)
    \/ \E p \in Procs : createBackupSetting(p)
    \/ \E p \in Procs : createBackupLog(p)
    \/ \E p \in Procs, k \in BackupKeys : Quiescent /\ restoreBackup(p, k)
    \/ \E p \in Procs : restoreBackupLog(p)

SpecRestore == Init /\ [][NextRestore]_vars

LogCandidates == { Candidate("bob", Str_x, "bob@nerist.ac.in", "student") }

LogProcs == {"c1"}

\* The workflows that write to the activity log after their own write, called
\* one at a time from one context: once the log is full every further log write
\* fails.
NextLog ==
    \/ \E p \in LogProcs, c \in LogCandidates : Quiescent /\ registerUser(p, c)
    \/ \E p \in Procs : registerEmail(p)
    \/ \E p \in Procs : registerPut(p)
    \/ \E p \in Procs : registerLog(p)
    \/ \E p \in LogProcs, c \in AdminLogin : Quiescent /\ login(p, c.username, c.password)
    \/ \E p \in Procs : loginPut(p)
    \/ \E p \in Procs : loginLog(p)
    \/ \E p \in LogProcs, d \in Dates, m \in ImportMealDatas : Quiescent /\ saveMessMenu(p, d, m)
    \/ \E p \in Procs : saveMessMenuPut(p)
    \/ \E p \in Procs : saveMessMenuLog(p)
    \/ \E p \in LogProcs, d \in Dates, m \in MealTypes :
         Quiescent /\ bookMeal(p, d, m, "student_001")
    \/ \E p \in Procs : bookMealPut(p)
    \/ \E p \in Procs : bookMealRecord(p)
    \/ \E p \in Procs : bookMealLog(p)
    \/ \E p \in LogProcs, d \in OpenOpportunity : Quiescent /\ createCareerOpportunity(p, d)
    \/ \E p \in Procs : createCareerOpportunityPut(p)
    \/ \E p \in Procs : createCareerOpportunityLog(p)
    \/ \E p \in LogProcs, o \in OpportunityIds : Quiescent /\ applyForOpportunity(p, o)
    \/ \E p \in Procs : applyGet(p)
    \/ \E p \in Procs : applyCheck(p)
    \/ \E p \in Procs : applyPut(p)
    \/ \E p \in Procs : applyCount(p)
    \/ \E p \in Procs : applyLog(p)
    \/ \E p \in LogProcs, d \in ImportAttendanceDatas : Quiescent /\ markAttendance(p, d)
    \/ \E p \in Procs : markAttendancePut(p)
    \/ \E p \in Procs : markAttendanceLog(p)

SpecLog == Init /\ [][NextLog]_vars

----------------------------------------------------------------------------
(* Registration, and the logins that follow it. *)

NextRegister ==
    \/ \E p \in Procs, c \in Candidates : registerUser(p, c)
    \/ \E p \in Procs : registerEmail(p)
    \/ \E p \in Procs : registerPut(p)
    \/ \E p \in Procs : registerLog(p)
    \/ \E p \in Procs, c \in RegisterLogins : login(p, c.username, c.password)
    \/ \E p \in Procs : loginPut(p)
    \/ \E p \in Procs : loginLog(p)

SpecRegister == Init /\ [][NextRegister]_vars

(* Authentication and the session: logins of the seeded users, logout,     *)
(* getCurrentUser, profile updates, the clock and page loads.              *)

NextSession ==
    \/ \E p \in Procs, c \in SessionLogins : login(p, c.username, c.password)
    \/ \E p \in Procs : loginPut(p)
    \/ \E p \in Procs : loginLog(p)
    \/ \E p \in Procs : logout(p)
    \/ \E p \in Procs : logoutLog(p)
    \/ \E p \in Procs : getCurrentUser(p)
    \/ \E p \in Procs : getCurrentUserGet(p)
    \/ \E p \in Procs, id \in ProfileIds, u \in ProfileUpdates : updateUserProfile(p, id, u)
    \/ \E p \in Procs : updateUserProfilePut(p)
    \/ \E p \in Procs : updateUserProfileLog(p)
    \/ restoreSession
    \/ Tick

SpecSession == Init /\ [][NextSession]_vars

(* Password changes of the seeded student, and the logins that follow. *)

NextPassword ==
    \/ \E p \in Procs, c \in PasswordChanges :
          changePassword(p, c.userId, c.oldPassword, c.newPassword)
    \/ \E p \in Procs : changePasswordPut(p)
    \/ \E p \in Procs : changePasswordLog(p)
    \/ \E p \in Procs, c \in PasswordLogins : login(p, c.username, c.password)
    \/ \E p \in Procs : loginPut(p)
    \/ \E p \in Procs : loginLog(p)

SpecPassword == Init /\ [][NextPassword]_vars

(* Profile updates that carry protected fields. *)

NextProfile ==
    \/ \E p \in Procs, id \in ProfileIds, u \in ProtectedUpdates :
          updateUserProfile(p, id, u)
    \/ \E p \in Procs : updateUserProfilePut(p)
    \/ \E p \in Procs : updateUserProfileLog(p)

SpecProfile == Init /\ [][NextProfile]_vars

----------------------------------------------------------------------------
(* The record of calls, as the properties read it. *)

Done(r) == r.res # "pending"

\* Two calls one after the other, neither with any other call in progress.
InSequence(a, b) == a.clean /\ b.clean /\ Done(a) /\ Done(b)

\* The call started last, once it has returned or thrown.
LastDone(op) ==
    Len(hist) > 0 /\ hist[Len(hist)].op = op /\ Done(hist[Len(hist)])

\* The two calls on record are calls of op with the same arguments.
SamePair(op) ==
    /\ Len(hist) = 2
    /\ hist[1].op = op /\ hist[2].op = op
    /\ hist[1].arg = hist[2].arg

----------------------------------------------------------------------------
(* Properties of the mess workflows (SpecMess). *)

BookingsOf(menu, studentId) ==
    Cardinality({i \in 1..Len(menu.bookings) : menu.bookings[i].studentId = studentId})

StoredMenu(arg) == messMenu[MenuId(arg.date, arg.mealType)]

\* C1: when bookMeal(date, mealType, studentId) is called twice without overlap
\* and the first call succeeds, the second fails with DuplicateBookingError;
\* after the first call and after the second the stored menu holds exactly one
\* booking of that student and bookedCount is the number of bookings.
C1_SecondBookingRejected ==
    /\ (LastDone("bookMeal") /\ hist[Len(hist)].clean /\ hist[Len(hist)].res = "ok")
         => LET r == hist[Len(hist)] IN
            /\ BookingsOf(StoredMenu(r.arg), r.arg.studentId) = 1
            /\ StoredMenu(r.arg).bookedCount = Len(StoredMenu(r.arg).bookings)
    /\ (SamePair("bookMeal") /\ InSequence(hist[1], hist[2]) /\ hist[1].res = "ok")
         => /\ hist[2].res = "DuplicateBookingError"
            /\ BookingsOf(StoredMenu(hist[2].arg), hist[2].arg.studentId) = 1
            /\ StoredMenu(hist[2].arg).bookedCount = Len(StoredMenu(hist[2].arg).bookings)

\* The second of two calls in sequence was rejected, on a menu that also
\* holds the booking of another student.
C1_Witness ==
    /\ SamePair("bookMeal")
    /\ InSequence(hist[1], hist[2])
    /\ hist[1].res = "ok"
    /\ hist[2].res = "DuplicateBookingError"
    /\ Len(StoredMenu(hist[2].arg).bookings) = 2

\* C6: when two bookMeal calls for the same (date, mealType, studentId) overlap,
\* at most one of them returns success.
C6_OverlappingBookings ==
    (SamePair("bookMeal") /\ hist[2].overlaps /\ Done(hist[1]) /\ Done(hist[2]))
      => ~(hist[1].res = "ok" /\ hist[2].res = "ok")

----------------------------------------------------------------------------
(* Properties of registration (SpecRegister). *)

UsernameTaken(username) == \E id \in DOMAIN users : users[id].username = username
EmailTaken(email) == \E id \in DOMAIN users : users[id].email = email

\* C3: a register call with username, password, email and role present that
\* does not collide with a stored user succeeds, and a login with the same
\* username and password that follows it succeeds; both return the user record
\* without its password field.
C3_RegisterThenLogin ==
    /\ (LastDone("register") /\ hist[Len(hist)].clean
          /\ ~MissingRequiredFields(hist[Len(hist)].arg)
          /\ hist[Len(hist)].res # "ConflictError")
         => /\ hist[Len(hist)].res = "ok"
            /\ "password" \notin DOMAIN hist[Len(hist)].val
    /\ (Len(hist) = 2 /\ hist[1].op = "register" /\ hist[2].op = "login"
          /\ InSequence(hist[1], hist[2]) /\ hist[1].res = "ok"
          /\ hist[2].arg.username = hist[1].arg.username
          /\ hist[2].arg.password = hist[1].arg.password)
         => /\ hist[2].res = "ok"
            /\ "password" \notin DOMAIN hist[2].val

\* C4: a register call with the required fields present and a username that
\* belongs to a stored user fails with ConflictError, whatever the email, and
\* leaves the users store as it was.
C4_UsernameConflict ==
    [][\A p \in Procs, c \in Candidates :
         (registerUser(p, c) /\ ~MissingRequiredFields(c) /\ UsernameTaken(c.username))
           => /\ hist'[Len(hist')].res = "ConflictError"
              /\ users' = users]_vars

\* A register call with a taken username and an email nobody has was rejected.
C4_Witness ==
    /\ LastDone("register")
    /\ hist[Len(hist)].res = "ConflictError"
    /\ UsernameTaken(hist[Len(hist)].arg.username)
    /\ ~EmailTaken(hist[Len(hist)].arg.email)

\* C5: no two stored users share a username or share an email, and of two
\* overlapping register calls with the same username or the same email at most
\* one succeeds.
C5_UniqueUsers ==
    /\ \A i, j \in DOMAIN users :
         i # j => /\ users[i].username # users[j].username
                  /\ users[i].email # users[j].email
    /\ (Len(hist) = 2 /\ hist[1].op = "register" /\ hist[2].op = "register"
          /\ hist[2].overlaps
          /\ \/ hist[1].arg.username = hist[2].arg.username
             \/ hist[1].arg.email = hist[2].arg.email)
         => ~(hist[1].res = "ok" /\ hist[2].res = "ok")

\* Two overlapping register calls with the same username both got past the
\* lookups; the put of one was rejected by the store and the other succeeded.
C5_Witness ==
    /\ Len(hist) = 2 /\ hist[1].op = "register" /\ hist[2].op = "register"
    /\ hist[2].overlaps
    /\ hist[1].arg.username = hist[2].arg.username
    /\ {hist[1].res, hist[2].res} = {"ok", "ConstraintError"}

----------------------------------------------------------------------------
(* Properties of the career workflows (SpecCareerSeq, SpecCareer). *)

ApplicationsFor(opportunityId) ==
    {id \in DOMAIN studentApplications :
        studentApplications[id].opportunityId = opportunityId}

CounterExact ==
    \A o \in DOMAIN careerOpportunities :
        careerOpportunities[o].applicants = Cardinality(ApplicationsFor(o))

\* Two apply calls in sequence by the same student for the same opportunity,
\* the first of which succeeded.
SecondApply ==
    /\ SamePair("applyForOpportunity")
    /\ InSequence(hist[1], hist[2])
    /\ hist[1].res = "ok"

C7_UniqueApplications ==
    \A i, j \in DOMAIN studentApplications :
        (/\ studentApplications[i].studentId = studentApplications[j].studentId
         /\ studentApplications[i].opportunityId = studentApplications[j].opportunityId)
          => i = j

\* C8: the applicants counter of an opportunity never exceeds the number of
\* stored applications for it: not between the two writes of an apply, not
\* after a fault between them, not under overlapping applies.
C8_CounterNeverLeads ==
    \A o \in DOMAIN careerOpportunities :
        careerOpportunities[o].applicants <= Cardinality(ApplicationsFor(o))

\* The write of the counter failed after the application was stored: the
\* counter lags.
C8_Witness ==
    /\ LastDone("applyForOpportunity")
    /\ hist[Len(hist)].res = "StorageError"
    /\ Quiescent
    /\ \E o \in DOMAIN careerOpportunities :
          careerOpportunities[o].applicants < Cardinality(ApplicationsFor(o))

----------------------------------------------------------------------------
(* Properties of authentication and the session (SpecSession). *)

\* The step completes the call started last.
Completes(op) ==
    /\ Len(hist') > 0
    /\ hist'[Len(hist')].op = op
    /\ Done(hist'[Len(hist')])
    /\ (Len(hist) = 0 \/ hist[Len(hist)] # hist'[Len(hist')])

\* The stored session is there, has not expired, and names a stored user who
\* is active.
SessionValid ==
    /\ session # NoSession
    /\ ~(session.expiresAt < now)
    /\ getUserById(session.userId) # NoUser
    /\ getUserById(session.userId).isActive

\* C9: getCurrentUser returns a user only when a session exists, has not
\* expired, and names a stored, active user; it returns the user without the
\* password field, and it never throws.
C9_CurrentUserNeedsValidSession ==
    [][\A p \in Procs :
         ((getCurrentUser(p) \/ getCurrentUserGet(p)) /\ Completes("getCurrentUser"))
           => /\ hist'[Len(hist')].res = "ok"
              /\ hist'[Len(hist')].val # NoUser
                   => /\ SessionValid
                      /\ "password" \notin DOMAIN hist'[Len(hist')].val]_vars

FailedLogin == {"NotFoundError", "DeactivatedError", "AuthError"}

WrongPassword(user, password) ==
    hashPasswordThrows(password) \/ passwordDiffers(user, hashPassword(password))

\* C10: login fails with NotFoundError when no stored user has the username,
\* with DeactivatedError when the user is inactive, whatever the password, and
\* with AuthError when the user is active and the password is wrong; a failed
\* login leaves the users store, the session and the current user as they were.
C10_LoginFailures ==
    [][\A p \in Procs, c \in SessionLogins :
         login(p, c.username, c.password)
           => LET res == hist'[Len(hist')].res
                  ids == {id \in DOMAIN users : users[id].username = c.username}
              IN  /\ ids = {} => res = "NotFoundError"
                  /\ \A id \in ids :
                       /\ ~users[id].isActive => res = "DeactivatedError"
                       /\ (users[id].isActive /\ WrongPassword(users[id], c.password))
                            => res = "AuthError"
                  /\ res \in FailedLogin
                       => UNCHANGED <<users, session, token, currentUser>>]_vars

----------------------------------------------------------------------------
(* Properties of the profile workflows (SpecProfile). *)

ProtectedOf(user) ==
    [id |-> user.id, username |-> user.username, role |-> user.role,
     createdAt |-> user.createdAt]

\* C11: whatever the update set carries for id, username, role and createdAt,
\* the write of updateUserProfile leaves those fields of the stored user as
\* they were, and the call does not fail at it.
C11_ProtectedFieldsKept ==
    [][\A p \in Procs :
         updateUserProfilePut(p)
           => /\ loc[p].userId \in DOMAIN users'
              /\ ProtectedOf(users'[loc[p].userId]) = ProtectedOf(users[loc[p].userId])
              /\ pc'[p] = "update_log"]_vars

----------------------------------------------------------------------------
(* Properties of changePassword (SpecPassword). *)

\* The call on record before this step is a changePassword of the user with
\* this username that succeeded with no other call in progress, and none is
\* in progress now.
AfterPasswordChange(username) ==
    /\ Quiescent
    /\ LastDone("changePassword")
    /\ hist[Len(hist)].clean
    /\ hist[Len(hist)].res = "ok"
    /\ getUserById(hist[Len(hist)].arg.userId).username = username

\* C12: changePassword of a stored user with a current password that does
\* not verify fails with AuthError and leaves the users store as it was; with
\* the correct current password it goes on to write the new credential and
\* succeeds.  After it succeeded, a login with the new password succeeds and
\* a login with the old (different) password fails with AuthError.
C12_ChangePassword ==
    [][/\ \A p \in Procs, c \in PasswordChanges :
            (changePassword(p, c.userId, c.oldPassword, c.newPassword)
               /\ getUserById(c.userId) # NoUser)
              => IF WrongPassword(getUserById(c.userId), c.oldPassword)
                 THEN /\ hist'[Len(hist')].res = "AuthError"
                      /\ users' = users
                 ELSE pc'[p] = "change_put"
       /\ \A p \in Procs :
            changePasswordPut(p) => pc'[p] = "change_log"
       /\ \A p \in Procs, c \in PasswordLogins :
            (login(p, c.username, c.password) /\ AfterPasswordChange(c.username))
              => /\ c.password = hist[Len(hist)].arg.newPassword
                      => pc'[p] = "login_put"
                 /\ (c.password = hist[Len(hist)].arg.oldPassword
                       /\ c.password # hist[Len(hist)].arg.newPassword)
                      => hist'[Len(hist')].res = "AuthError"]_vars

----------------------------------------------------------------------------
(* Properties of the alerts and the expiry sweep (SpecAlerts). *)

\* C13: when a pass of the sweep completes, every alert that was active with
\* its expiry elapsed when the pass read the alerts is inactive; and
\* getActiveAlerts never returns an alert whose expiry has elapsed.
C13_SweepDeactivatesExpired ==
    [][/\ \A p \in Procs :
            syncSetting(p)
              => \A id \in ToSweep(loc[p].alerts, loc[p].now) :
                    ~campusAlerts'[id].isActive
       /\ \A p \in Procs :
            getActiveAlerts(p, "")
              => \A i \in 1..Len(hist'[Len(hist')].val.alerts) :
                    ~Expired(hist'[Len(hist')].val.alerts[i], now)]_vars

\* A pass that starts right after a pass that completed with no other call in
\* progress, at the same reading of the clock.
SecondPass ==
    /\ Quiescent
    /\ LastDone("performBackgroundSync")
    /\ hist[Len(hist)].clean
    /\ hist[Len(hist)].res = "ok"
    /\ hist[Len(hist)].arg.at = now

\* C14: no step removes an alert, and the steps of the sweep leave the set of
\* alert ids as it is; a second pass right after a first finds no alert to
\* flip, so it writes none.
C14_SweepKeepsAlerts ==
    [][/\ DOMAIN campusAlerts \subseteq DOMAIN campusAlerts'
       /\ \A p \in Procs :
            (performBackgroundSync(p) \/ syncPut(p) \/ syncLog(p) \/ syncSetting(p))
              => DOMAIN campusAlerts' = DOMAIN campusAlerts
       /\ \A p \in Procs :
            (performBackgroundSync(p) /\ SecondPass) => pc'[p] = "sync_log"]_vars

\* Two passes in sequence have completed, the first of which had flipped an
\* expired alert.
C14_Witness ==
    /\ SamePair("performBackgroundSync")
    /\ InSequence(hist[1], hist[2])
    /\ hist[1].res = "ok" /\ hist[2].res = "ok"
    /\ \E id \in DOMAIN campusAlerts :
          Expired(campusAlerts[id], now) /\ ~campusAlerts[id].isActive

-----------------------------------------------------------------------------
(* Properties of the attendance workflows (SpecAttendance). *)

\* The step ends the call of context p with the error err.
Throws(p, err) ==
    /\ pc'[p] = "idle"
    /\ \A i \in 1..Len(hist) :
         (hist[i].proc = p /\ hist[i].res = "pending") => hist'[i].res = err

\* Every object store.
stores ==
    <<users, activityLog, messVars, careerVars, campusAlerts, attendanceVars, results>>

\* C19: updateAttendance and deleteAttendance, called by an authenticated
\* actor with an id no attendance record has, fail with NotFoundError and
\* leave the attendance store as it was; called without an authenticated
\* actor they fail and write nothing.
C19_AttendanceNotFound ==
    [][\A p \in Procs :
         /\ (updateAttendanceGet(p) /\ loc[p].attendanceId \notin DOMAIN attendance)
              => Throws(p, "NotFoundError") /\ attendance' = attendance
         /\ (deleteAttendanceDelete(p) /\ loc[p].attendanceId \notin DOMAIN attendance)
              => Throws(p, "NotFoundError") /\ attendance' = attendance
         /\ \A a \in AttendanceIds :
              (/\ AwaitCurrentUser = NoUser
               /\ \/ \E u \in AttendanceUpdates : updateAttendance(p, a, u)
                  \/ deleteAttendance(p, a))
                => /\ hist'[Len(hist')].res = "NotAuthenticated"
                   /\ UNCHANGED stores]_vars

\* The attendance workflows count before the properties of the statistics.
StatusCount(studentId, status) ==
    Cardinality({id \in DOMAIN attendance :
                   attendance[id].studentId = studentId /\ attendance[id].status = status})

RecordCount(studentId) ==
    Cardinality({id \in DOMAIN attendance : attendance[id].studentId = studentId})

\* k is x = num / den rounded to the nearest integer, a half rounded upwards.
IsRounded(k, num, den) == 2 * k * den - den <= 2 * num /\ 2 * num < 2 * k * den + den

\* C20: getAttendanceStats(studentId) returns total = the number of the
\* student's attendance records, present = the number of them with status
\* 'present', percentage = round(present / total * 100), so 75 for 3 present,
\* 1 absent and 0 late, with present + absent + late <= total; without any
\* record of the student it returns the all-zero object and no error.
C20_StatsPercentage ==
    LastDone("getAttendanceStats")
      => LET r == hist[Len(hist)]
             st == r.arg.studentId
         IN  /\ r.res = "ok"
             /\ r.val.total = RecordCount(st)
             /\ r.val.present = StatusCount(st, "present")
             /\ r.val.present + r.val.absent + r.val.late <= r.val.total
             /\ IF RecordCount(st) = 0
                THEN r.val = [total |-> 0, present |-> 0, absent |-> 0, late |-> 0,
                              percentage |-> 0]
                ELSE IsRounded(r.val.percentage, 100 * r.val.present, r.val.total)
             /\ (/\ StatusCount(st, "present") = 3
                 /\ StatusCount(st, "absent") = 1
                 /\ RecordCount(st) = 4)
                  => r.val.percentage = 75

-----------------------------------------------------------------------------
(* Properties of export, import and restore (SpecImport, SpecReimport,      *)
(* SpecRestore). *)

\* The number of records of every store.
RecordCounts ==
    [users |-> Cardinality(DOMAIN users),
     attendance |-> Cardinality(DOMAIN attendance),
     messMenu |-> Cardinality(DOMAIN messMenu),
     careerOpportunities |-> Cardinality(DOMAIN careerOpportunities),
     studentApplications |-> Cardinality(DOMAIN studentApplications),
     results |-> Cardinality(DOMAIN results),
     campusAlerts |-> Cardinality(DOMAIN campusAlerts),
     activityLog |-> Len(activityLog),
     mealBookings |-> Cardinality(DOMAIN mealBookings)]

\* The last two calls were clearDatabase and then a successful importData,
\* with no other call in progress.
ImportedIntoEmpty ==
    /\ Len(hist) = 2
    /\ hist[1].op = "clearDatabase"
    /\ hist[2].op = "importData"
    /\ InSequence(hist[1], hist[2])
    /\ hist[2].res = "ok"

\* C15: after exportDataAsJSON and the import of its result into a store
\* without records, every collection holds as many records as the exported
\* store held at the time of the export.
C15_RoundTripCounts ==
    ImportedIntoEmpty
      => \A c \in DOMAIN RecordCounts : RecordCounts[c] = snapshot.recordCounts[c]

\* C16: importData called while getCurrentUser gives no user, or a user whose
\* role is not admin, fails and writes to no store; so does restoreBackup,
\* which also fails without a write when called by an admin with a key that
\* no backup is stored under.
C16_ImportNeedsAdmin ==
    [][\A p \in Procs :
         LET user == AwaitCurrentUser
             denied == user = NoUser \/ user.role # "admin"
             failed == /\ pc'[p] = "idle"
                       /\ hist'[Len(hist')].res \notin {"ok", "pending"}
                       /\ UNCHANGED stores
         IN  /\ (snapshot # NoVal /\ importData(p, snapshot) /\ denied) => failed
             /\ \A k \in BackupKeys :
                  /\ (restoreBackup(p, k) /\ denied) => failed
                  /\ (restoreBackup(p, k) /\ ~denied /\ k \notin DOMAIN backups)
                       => failed /\ hist'[Len(hist')].res = "NotFoundError"]_vars

\* An admin asked for a backup that is not stored while another one is, and
\* the call failed.
C16_Witness ==
    /\ LastDone("restoreBackup")
    /\ hist[Len(hist)].res = "NotFoundError"
    /\ backups # <<>>
    /\ currentUser # NoUser
    /\ currentUser.role = "admin"

\* One complete run of the puts of data leaves the same stores whether it
\* starts from target, from what a complete run left of target, or from what
\* a run that completed the puts of only some collections left of it.
IdempotentOn(target, data) ==
    LET once == ImportedInto(target, data, Imported) IN
    /\ ImportedInto(once, data, Imported) = once
    /\ \A done \in SUBSET Imported :
         ImportedInto(ImportedInto(target, data, done), data, Imported) = once

\* Context p runs importData directly after an importData that succeeded.
SecondImport(p) ==
    /\ Len(hist) = 2
    /\ hist[1].op = "importData" /\ hist[1].res = "ok" /\ hist[1].clean
    /\ hist[2].op = "importData" /\ hist[2].proc = p /\ hist[2].clean

\* The stores of records, the key generators with them.
recordStores ==
    <<users, idSeq, messVars, careerVars, campusAlerts, attendanceVars, results>>

-----------------------------------------------------------------------------
(* Properties of the activity log (SpecLog). *)

\* The call of context p returns its result.
Succeeds(p) ==
    /\ pc'[p] = "idle"
    /\ \E i \in 1..Len(hist) :
         hist[i].proc = p /\ hist[i].res = "pending" /\ hist'[i].res = "ok"

\* The step of context p that awaits logActivity.
LogStep(p) ==
    \/ registerLog(p)
    \/ loginLog(p)
    \/ saveMessMenuLog(p)
    \/ bookMealLog(p)
    \/ createCareerOpportunityLog(p)
    \/ applyLog(p)
    \/ markAttendanceLog(p)

\* C18: when the write of the activity-log entry fails in registerUser,
\* login, saveMessMenu, bookMeal, createCareerOpportunity, applyForOpportunity
\* or markAttendance, the call still returns its result and what it wrote
\* before stays in the stores.
C18_LogFailureSwallowed ==
    [][\A p \in Procs :
         (LogStep(p) /\ activityLog' = activityLog)
           => Succeeds(p) /\ UNCHANGED recordStores /\ UNCHANGED mealBookings]_vars

\* markAttendance returned the record it stored although its log entry was
\* not written.
C18_Witness ==
    /\ LastDone("markAttendance")
    /\ hist[Len(hist)].res = "ok"
    /\ \E id \in DOMAIN attendance :
         attendance[id] = Spread(hist[Len(hist)].val, [id |-> id])
    /\ \A i \in 1..Len(activityLog) : activityLog[i].action # "mark_attendance"

-----------------------------------------------------------------------------
(* Properties of the results workflows (SpecResults). *)

\* The subjects of all stored records of a student.
StoredSubjects(studentId) ==
    AllSubjects(SortBySemester({id \in DOMAIN results : results[id].studentId = studentId}))

\* The credits of a subject as stored; a subject stored without credits
\* counts once.
StoredCredits(subject) == IF "credits" \in DOMAIN subject THEN subject.credits ELSE 1

\* The sums over a list of subjects: grade points times credits, in halves
\* of a point, and credits.
RECURSIVE WeightedPoints(_)
WeightedPoints(subjects) ==
    IF subjects = <<>> THEN 0
    ELSE getGradePoints(Head(subjects).grade) * StoredCredits(Head(subjects))
           + WeightedPoints(Tail(subjects))

RECURSIVE CreditSum(_)
CreditSum(subjects) ==
    IF subjects = <<>> THEN 0
    ELSE StoredCredits(Head(subjects)) + CreditSum(Tail(subjects))

\* halves / 2 / credits rounded to two decimals, in hundredths.
RoundedAverage(halves, credits) ==
    IF credits = 0 THEN 0 ELSE (100 * halves + credits) \div (2 * credits)

\* C21: getStudentResults(studentId) without a semester returns as cgpa the
\* sum of grade points times credits over the sum of credits, over all
\* subjects of all stored records of the student, rounded to two decimals,
\* computed from the records stored at the time of the call.
C21_CgpaFromStoredRecords ==
    (LastDone("getStudentResults") /\ hist[Len(hist)].arg.semester = 0)
      => LET r == hist[Len(hist)]
             subjects == StoredSubjects(r.arg.studentId)
         IN  /\ r.res = "ok"
             /\ r.val.cgpa = RoundedAverage(WeightedPoints(subjects), CreditSum(subjects))

-----------------------------------------------------------------------------
(* Properties of saved menus (SpecMenu). *)

\* The embedded lists and the counts derived from them.
EmbeddedFields == {"bookings", "feedback", "bookedCount", "averageRating"}

\* The value of a field of a menu after a reset.
ResetValue(f) == IF f \in {"bookings", "feedback"} THEN <<>> ELSE 0

\* C22: after saveMessMenu(date, mealData) the store holds one menu under the
\* key of date and mealType, and each of its bookings, feedback, bookedCount
\* and averageRating is the value mealData supplied, or is reset when
\* mealData supplied none.
C22_SaveMenuKeepsSupplied ==
    (LastDone("saveMessMenu") /\ hist[Len(hist)].res = "ok")
      => LET arg == hist[Len(hist)].arg
             id == MenuId(arg.date, arg.mealData.mealType)
         IN  /\ id \in DOMAIN messMenu
             /\ Cardinality({k \in DOMAIN messMenu :
                               /\ messMenu[k].date = arg.date
                               /\ messMenu[k].mealType = arg.mealData.mealType}) = 1
             /\ \A f \in EmbeddedFields :
                  LET stored == IF f \in DOMAIN messMenu[id]
                                THEN messMenu[id][f] ELSE ResetValue(f)
                  IN  stored = IF f \in DOMAIN arg.mealData
                               THEN arg.mealData[f] ELSE ResetValue(f)

-----------------------------------------------------------------------------
(* Properties of meal feedback (SpecFeedback). *)

\* sum / n rounded to one decimal, in tenths.
RoundedMean(sum, n) == (20 * sum + n) \div (2 * n)

\* C23: every stored menu with feedback holds as averageRating the mean of
\* the ratings of all entries of its feedback list, rounded to one decimal;
\* and the menu submitMealFeedback returns ends with the entry of the call,
\* whether or not the student gave feedback before.
C23_AverageRatingIsMean ==
    /\ \A id \in DOMAIN messMenu :
         LET menu == messMenu[id] IN
         menu.feedback # <<>>
           => /\ "averageRating" \in DOMAIN menu
              /\ menu.averageRating = RoundedMean(totalRating(menu.feedback),
                                                 Len(menu.feedback))
    /\ (LastDone("submitMealFeedback") /\ hist[Len(hist)].res = "ok")
         => LET r == hist[Len(hist)] IN
            r.val.feedback[Len(r.val.feedback)] = Feedback(r.arg.studentId, r.arg.rating)

-----------------------------------------------------------------------------
(* Properties of overlapping writes to a menu (SpecBooking). *)

\* The two calls on record overlapped and both returned their result.
BothSucceeded ==
    /\ Len(hist) = 2
    /\ hist[2].overlaps
    /\ hist[1].res = "ok" /\ hist[2].res = "ok"

\* The menu holds a feedback entry of the student.
existingFeedback(menu, studentId) ==
    \E i \in 1..Len(menu.feedback) : menu.feedback[i].studentId = studentId

\* C26: when two bookMeal calls for different students on one menu overlap
\* and both succeed, the stored menu holds both bookings and bookedCount is
\* 2; when a bookMeal and a submitMealFeedback on one menu overlap and both
\* succeed, the stored menu holds the booking and the feedback entry.
C26_NoLostMenuWrite ==
    BothSucceeded
      => LET a == hist[1]
             b == hist[2]
             menu == messMenu[MenuId(a.arg.date, a.arg.mealType)]
         IN  /\ (/\ a.op = "bookMeal" /\ b.op = "bookMeal"
                 /\ a.arg.studentId # b.arg.studentId)
                  => /\ existingBooking(menu, a.arg.studentId)
                     /\ existingBooking(menu, b.arg.studentId)
                     /\ menu.bookedCount = 2
             /\ \A x \in {a, b}, y \in {a, b} :
                  (x.op = "bookMeal" /\ y.op = "submitMealFeedback")
                    => /\ existingBooking(menu, x.arg.studentId)
                       /\ existingFeedback(menu, y.arg.studentId)

-----------------------------------------------------------------------------
(* The mealBookings records against the bookings embedded in the menus. *)

\* saveMessMenu, bookMeal and submitMealFeedback in any order, one call at a
\* time.
NextMealRecords ==
    \/ \E p \in Procs, c \in MessLogins : Quiescent /\ login(p, c.username, c.password)
    \/ \E p \in Procs : loginPut(p)
    \/ \E p \in Procs : loginLog(p)
    \/ \E p \in Procs, d \in Dates, m \in ImportMealDatas :
         Quiescent /\ saveMessMenu(p, d, m)
    \/ \E p \in Procs : saveMessMenuPut(p)
    \/ \E p \in Procs : saveMessMenuLog(p)
    \/ \E p \in Procs, d \in Dates, m \in MealTypes, st \in Students :
         Quiescent /\ bookMeal(p, d, m, st)
    \/ \E p \in Procs : bookMealPut(p)
    \/ \E p \in Procs : bookMealRecord(p)
    \/ \E p \in Procs : bookMealLog(p)
    \/ \E p \in Procs, d \in Dates, m \in MealTypes, st \in Students, r \in Ratings :
         Quiescent /\ submitMealFeedback(p, d, m, st, r)
    \/ \E p \in Procs : submitMealFeedbackPut(p)
    \/ \E p \in Procs : submitMealFeedbackLog(p)

SpecMealRecords == Init /\ [][NextMealRecords]_vars

\* C27: while no call is in progress, every record of the mealBookings store
\* has an entry for its student in the bookings list embedded in the menu of
\* its date and meal type.
C27_RecordsMatchEmbedded ==
    Quiescent
      => \A id \in DOMAIN mealBookings :
           LET b == mealBookings[id]
               menu == getObject(messMenu, MenuId(b.date, b.mealType))
           IN  /\ menu # NoVal
               /\ existingBooking(menu, b.studentId)

-----------------------------------------------------------------------------
(* The listing of active alerts. *)

Priorities == {"high", "medium", "low"}

\* An alert as createCampusAlert stores it, with or without a priority.
StoredAlert(id, priority, createdAt, expiry) ==
    LET alert == [id |-> id, title |-> "t", createdAt |-> createdAt,
                  createdBy |-> "admin_001", isActive |-> TRUE, views |-> 0,
                  expiry |-> expiry]
    IN  IF priority = "" THEN alert ELSE Spread(alert, [priority |-> priority])

\* Two alerts are stored, created now or one tick ago, and expiring now, in
\* one tick or in two.
InitActive ==
    /\ \E p1 \in Priorities \cup {""}, p2 \in Priorities \cup {""},
          c1 \in {0 - TickHours, 0}, c2 \in {0 - TickHours, 0},
          e1 \in {0, TickHours, 2 * TickHours},
          e2 \in {0, TickHours, 2 * TickHours} :
         /\ c1 <= c2
         /\ campusAlerts = (1 :> StoredAlert(1, p1, c1, e1))
                             @@ (2 :> StoredAlert(2, p2, c2, e2))
    /\ users = seedInitialData
    /\ session = NoSession
    /\ token = NoToken
    /\ currentUser = NoUser
    /\ activityLog = <<[userId |-> "admin_001", action |-> "create_alert"]>>
    /\ logSeq = 0
    /\ messMenu = <<>>
    /\ mealBookings = <<>>
    /\ careerOpportunities = <<>>
    /\ studentApplications = <<>>
    /\ attendance = <<>>
    /\ attendanceSeq = 0
    /\ results = <<>>
    /\ snapshot = NoVal
    /\ backups = <<>>
    /\ idSeq = 0
    /\ now = 0
    /\ pc = [p \in Procs |-> "idle"]
    /\ loc = [p \in Procs |-> NoLoc]
    /\ hist = <<>>

NextActive ==
    \/ \E p \in Procs, priority \in Priorities \cup {""} :
         Quiescent /\ getActiveAlerts(p, priority)
    \/ \E p \in Procs : Quiescent /\ performBackgroundSync(p)
    \/ \E p \in Procs : syncPut(p)
    \/ \E p \in Procs : syncLog(p)
    \/ \E p \in Procs : syncSetting(p)
    \/ Tick

SpecActive == InitActive /\ [][NextActive]_vars

\* The alerts the listing is to return at time t: active, expiring strictly
\* later than t, and of the priority asked for.
ActiveAt(t, priority) ==
    {id \in DOMAIN campusAlerts :
        /\ campusAlerts[id].isActive
        /\ campusAlerts[id].expiry > t
        /\ priority # "" => /\ "priority" \in DOMAIN campusAlerts[id]
                           /\ campusAlerts[id].priority = priority}

\* high before medium before low, and newest first within one priority.
InListingOrder(alerts) ==
    \A i \in 1..Len(alerts), j \in 1..Len(alerts) :
      (i < j /\ "priority" \in DOMAIN alerts[i] /\ "priority" \in DOMAIN alerts[j])
        => \/ priorityOrder(alerts[i]) > priorityOrder(alerts[j])
           \/ /\ priorityOrder(alerts[i]) = priorityOrder(alerts[j])
              /\ alerts[i].createdAt >= alerts[j].createdAt

\* C24: getActiveAlerts(priority) returns exactly the alerts that are active
\* and expire strictly later than now (an alert expiring now is not
\* returned), of the given priority when one is given, ordered high, medium,
\* low and newest first within one priority.
C24_ActiveListing ==
    [][\A p \in Procs, priority \in Priorities \cup {""} :
         getActiveAlerts(p, priority)
           => LET alerts == hist'[Len(hist')].val.alerts IN
              /\ {alerts[i].id : i \in 1..Len(alerts)} = ActiveAt(now, priority)
              /\ Len(alerts) = Cardinality(ActiveAt(now, priority))
              /\ InListingOrder(alerts)]_vars

-----------------------------------------------------------------------------
(* The trim of the activity log by the sync pass. *)

MaxLogWrites == 2

\* An entry as logActivity builds it, with the key the store gives it.
LogEntry(id, userId, action, timestamp) ==
    [id |-> id, userId |-> userId, action |-> action, timestamp |-> timestamp]

\* logActivity(userId, action, details), called on its own: the entry is
\* put and returned.
logActivityCall(p, userId, action) ==
    /\ Idle(p)
    /\ logSeq < LogCap + 1 + MaxLogWrites
    /\ logSeq' = logSeq + 1
    /\ activityLog' = Append(activityLog, LogEntry(logSeq + 1, userId, action, now))
    /\ Return(p, HistBegin(hist, p, "logActivity", [id |-> logSeq + 1]), "ok", NoVal)
    /\ UNCHANGED <<users, idSeq, messVars, careerVars, campusAlerts, attendanceVars,
                   backupVars, results, session, token, currentUser, now>>

\* The log holds 1000 or 1001 entries, written one after the other at
\* different times in the past.
InitTrim ==
    /\ \E n \in {LogCap, LogCap + 1} :
         /\ activityLog = [i \in 1..n |->
               LogEntry(i, "admin_001", "login", i - n - 1)]
         /\ logSeq = n
    /\ users = seedInitialData
    /\ session = NoSession
    /\ token = NoToken
    /\ currentUser = NoUser
    /\ messMenu = <<>>
    /\ mealBookings = <<>>
    /\ careerOpportunities = <<>>
    /\ studentApplications = <<>>
    /\ campusAlerts = <<>>
    /\ attendance = <<>>
    /\ attendanceSeq = 0
    /\ results = <<>>
    /\ snapshot = NoVal
    /\ backups = <<>>
    /\ idSeq = 0
    /\ now = 0
    /\ pc = [p \in Procs |-> "idle"]
    /\ loc = [p \in Procs |-> NoLoc]
    /\ hist = <<>>

\* One context runs sync passes, the other logs.
NextTrim ==
    \/ performBackgroundSync("c1")
    \/ syncLog("c1")
    \/ syncClear("c1")
    \/ syncKeep("c1")
    \/ syncSetting("c1")
    \/ logActivityCall("c2", "student_001", "book_meal")

SpecTrim == InitTrim /\ [][NextTrim]_vars

\* The keys of the entries the log holds.
LogKeys(log) == {log[i].id : i \in 1..Len(log)}

\* C25: when a pass that trimmed the log completes, the log holds at most
\* 1000 entries, and every entry that was ever written and is no longer in
\* the log is older than every entry the log holds; so an entry written
\* while the pass was running is not lost.
C25_TrimKeepsNewest ==
    [][\A p \in Procs :
         (syncSetting(p) /\ "trimmed" \in DOMAIN loc[p])
           => /\ Len(activityLog') <= LogCap
              /\ \A id \in 1..logSeq :
                   id \notin LogKeys(activityLog')
                     => \A kept \in LogKeys(activityLog') : id < kept]_vars

-----------------------------------------------------------------------------
(* The user in memory against the stored session. *)

\* Logins of two users and logouts, in any interleaving.
NextAuth ==
    \/ \E p \in Procs, c \in CareerLogins : login(p, c.username, c.password)
    \/ \E p \in Procs : loginPut(p)
    \/ \E p \in Procs : loginLog(p)
    \/ \E p \in Procs : logout(p)
    \/ \E p \in Procs : logoutLog(p)

SpecAuth == Init /\ [][NextAuth]_vars

\* Nobody is logged in, in memory and in storage alike.
BothAbsent == currentUser = NoUser /\ session = NoSession

\* The user in memory and the stored session are the user with this id.
BothAre(id) ==
    /\ currentUser # NoUser /\ currentUser.id = id
    /\ session # NoSession /\ session.userId = id

\* C30: while no call is in progress, the user in memory and the stored
\* session are both absent or name the same user; after a login that no
\* other call overlapped both name the user who logged in, and after such a
\* logout both are absent.
C30_UserMatchesSession ==
    Quiescent
      => /\ BothAbsent \/ (session # NoSession /\ BothAre(session.userId))
         /\ (LastDone("login") /\ hist[Len(hist)].clean /\ hist[Len(hist)].res = "ok")
              => BothAre(hist[Len(hist)].val.id)
         /\ (LastDone("logout") /\ hist[Len(hist)].clean /\ hist[Len(hist)].res = "ok")
              => BothAbsent

-----------------------------------------------------------------------------
(* The credentials of the stored users across an import. *)

\* Logins, exports and imports of the exported snapshot into the store it
\* was taken from, calls one at a time.
NextCredentials ==
    \/ \E p \in Procs, c \in ImportLogins : Quiescent /\ login(p, c.username, c.password)
    \/ \E p \in Procs : loginPut(p)
    \/ \E p \in Procs : loginLog(p)
    \/ \E p \in Procs : Quiescent /\ exportDataAsJSON(p)
    \/ \E p \in Procs : Quiescent /\ snapshot # NoVal /\ importData(p, snapshot)
    \/ \E p \in Procs : importPuts(p)
    \/ \E p \in Procs : importPutsFail(p)
    \/ \E p \in Procs : importLog(p)

SpecCredentials == Init /\ [][NextCredentials]_vars

\* The checks of login pass for the pair on the users of store.
LogsIn(store, c) ==
    LET user == IndexFirst(store, "username", c.username) IN
    /\ user # NoUser
    /\ user.isActive
    /\ ~passwordDiffers(user, hashPassword(c.password))

\* C29: the puts of an import of an exported snapshot into a store that
\* holds the exported users leave every username and password pair that
\* logged in before them logging in after them.
C29_ImportKeepsCredentials ==
    [][\A p \in Procs :
         (importPuts(p) /\ DOMAIN loc[p].data.users \subseteq DOMAIN users)
           => \A c \in ImportLogins : LogsIn(users, c) => LogsIn(users', c)]_vars

-----------------------------------------------------------------------------
(* The expiry sweep next to the other writers of an alert. *)

\* Sweep passes overlapping markAlertAsRead and deactivateAlert on alerts
\* created expired or with the default expiry; logins and creations one at a
\* time.
NextSweepWriters ==
    \/ \E p \in Procs, c \in StudentLogin : Quiescent /\ login(p, c.username, c.password)
    \/ \E p \in Procs : loginPut(p)
    \/ \E p \in Procs : loginLog(p)
    \/ \E p \in Procs, d \in ElapsedAlertDatas : Quiescent /\ createCampusAlert(p, d)
    \/ \E p \in Procs : createCampusAlertPut(p)
    \/ \E p \in Procs : createCampusAlertLog(p)
    \/ \E p \in Procs, a \in AlertIds : markAlertAsRead(p, a)
    \/ \E p \in Procs : markAlertAsReadPut(p)
    \/ \E p \in Procs, a \in AlertIds : deactivateAlert(p, a)
    \/ \E p \in Procs : deactivateAlertGet(p)
    \/ \E p \in Procs : deactivateAlertPut(p)
    \/ \E p \in Procs : deactivateAlertLog(p)
    \/ \E p \in Procs : performBackgroundSync(p)
    \/ \E p \in Procs : syncPut(p)
    \/ \E p \in Procs : syncLog(p)
    \/ \E p \in Procs : syncSetting(p)

SpecSweepWriters == Init /\ [][NextSweepWriters]_vars

\* C28: a put of the sweep leaves every field of every stored alert other
\* than isActive as it was stored just before the put, so the views counted
\* by markAlertAsRead and the fields set by deactivateAlert while the pass is
\* running are still in the stored alert.
C28_SweepKeepsOtherFields ==
    [][\A p \in Procs :
         syncPut(p)
           => \A id \in DOMAIN campusAlerts :
                \A field \in DOMAIN campusAlerts[id] \ {"isActive"} :
                   /\ field \in DOMAIN campusAlerts'[id]
                   /\ campusAlerts'[id][field] = campusAlerts[id][field]]_vars

====
